---- MODULE Spec2Model ----
(***************************************************************************)
(* Model of the automagik-telemetry Python package: the legacy            *)
(* TelemetryClient (client.py), the OTLP backend (backends/otlp.py) and    *)
(* the ClickHouse backend (backends/clickhouse.py).                        *)
(*                                                                         *)
(* The HTTP transport (urllib.request.urlopen) is the environment.  Each   *)
(* call of a handler meets a server behaviour srv = [first, rest]: the     *)
(* first HTTP attempt of the call sees srv.first, every later attempt of   *)
(* the same call sees srv.rest.  An outcome is either a response with a    *)
(* status or an exception of some class raised by urlopen.                 *)
(***************************************************************************)
EXTENDS Integers, Sequences, FiniteSets, TLC

\* ------------------------------------------------------------------ bounds
MaxRetries == 2        \* max_retries ranges over 0..MaxRetries
MaxBatch == 2          \* batch_size ranges over 1..MaxBatch
MaxCalls == 3          \* calls made on one ClickHouse backend
MaxClientCalls == 4    \* calls made on one client
MaxOtlpCalls == 2      \* calls made on one OTLP backend
MaxTraceCalls == 17    \* calls of the send_trace-only scenario
MaxFlushCalls == 4     \* calls of the scenario of repeated flushes
MaxPayloadCalls == 2   \* calls of the scenario of request bodies
MaxBackoffRetries == 3 \* max_retries ranges over 0..MaxBackoffRetries for backoff
MaxAutoCalls == 3      \* events accepted by one batching client
MaxAutoBatch == 3      \* its batch_size ranges over 1..MaxAutoBatch
MaxInterval == 2       \* its flush_interval ranges over 1..MaxInterval ticks
MaxThreads == 2        \* threads that call one ClickHouse backend
MaxThreadRows == 3     \* rows the threads append between them
MaxFrameCalls == 2     \* calls made on a client and a backend side by side

\* ------------------------------------------------------- transport outcomes
Resp(s) == [kind |-> "resp", status |-> s, cls |-> "none"]
Raise(c, code) == [kind |-> "exc", status |-> code, cls |-> c]

Outcomes ==
    { Resp(200), Resp(404), Resp(503),
      Raise("HTTPError", 404), Raise("HTTPError", 503),
      Raise("URLError", 0), Raise("TimeoutError", 0), Raise("Exception", 0) }

\* A server answers every attempt alike, or changes its answer once: to or
\* from 200, or to a 404 error.
Servers ==
    { s \in [first : Outcomes, rest : Outcomes] :
         \/ s.rest = s.first
         \/ s.first = Resp(200)
         \/ s.rest \in {Resp(200), Raise("HTTPError", 404)} }

\* the outcome urlopen produces on the g-th HTTP attempt (1-based) of a call
OutcomeAt(srv, g) == IF g = 1 THEN srv.first ELSE srv.rest

\* Python exception hierarchy, as far as the handlers distinguish it
Parent(c) ==
    CASE c = "HTTPError" -> "URLError"
      [] c = "URLError" -> "OSError"
      [] c = "TimeoutError" -> "OSError"
      [] c = "OSError" -> "Exception"
      [] c = "TypeError" -> "Exception"
      [] OTHER -> "BaseException"

RECURSIVE IsSubclass(_, _)
IsSubclass(c, base) ==
    IF c = base THEN TRUE
    ELSE IF c = "BaseException" THEN FALSE
    ELSE IsSubclass(Parent(c), base)

\* an `except (A, B, ...)` clause catches an exception of class c
Catches(handler, c) == \E h \in handler : IsSubclass(c, h)

VARIABLES
    enabled,        \* TelemetryClient.enabled
    identity,       \* TelemetryClient.user_id and session_id
    marker,         \* ~/.automagik-no-telemetry exists
    clientReqs,     \* HTTP requests issued by the client so far
    clientCalls,    \* calls made on the client so far
    clientLast,     \* the last client call: [op, sent, outcome, raised,
                    \* value, fs]
    backend,        \* TelemetryConfig.backend: the backend in use
    otlpCfg,        \* OTLPBackend configuration
    otlpCalls,      \* calls made on the OTLP backend so far
    otlpLast,       \* the last OTLP call
    chCfg,          \* ClickHouseBackend configuration
    trace_batch,    \* ClickHouseBackend._trace_batch
    metric_batch,   \* ClickHouseBackend._metric_batch
    log_batch,      \* ClickHouseBackend._log_batch
    calls,          \* calls made on the ClickHouse backend so far
    insertCount,    \* per row id: number of _insert_batch calls it was part of
    chLast,         \* the last ClickHouse call
    probe,          \* a function under study: its inputs, then its result
    auto,           \* the batching client: its configuration, _shutdown,
                    \* _flush_timer, the queued events, the events sent
    threads         \* per thread inside a ClickHouse call: its position and
                    \* the rows its _insert_batch serialized

clientVars == <<enabled, identity, marker, clientReqs, clientCalls, clientLast,
                auto>>
otlpVars == <<otlpCfg, otlpCalls, otlpLast>>
chVars == <<chCfg, trace_batch, metric_batch, log_batch, calls, insertCount,
            chLast, threads>>
vars == <<enabled, identity, marker, clientReqs, clientCalls, clientLast, backend,
          otlpCfg, otlpCalls, otlpLast,
          chCfg, trace_batch, metric_batch, log_batch, calls, insertCount,
          chLast, probe, auto, threads>>

\* =================================================================== client
TrackOps == {"track_event", "track_error", "track_metric"}

EnvValues ==
    {"unset", "true", "TRUE", "1", "yes", "on", "false", "0", "other"}

\* str.lower() on the values of AUTOMAGIK_TELEMETRY_ENABLED that occur
Lower(v) == IF v = "TRUE" THEN "true" ELSE v

\* client.py _is_telemetry_enabled
IsTelemetryEnabledMarkerFirst(env, optOut, ci, dev) ==
    IF optOut THEN FALSE
    ELSE IF env # "unset" THEN Lower(env) \in {"true", "1", "yes", "on"}
    ELSE FALSE
IsTelemetryEnabled(env, optOut, ci, dev) ==
    IF env # "unset" THEN Lower(env) \in {"true", "1", "yes", "on"}
    ELSE IF optOut THEN FALSE
    ELSE IF ci THEN FALSE
    ELSE IF dev THEN FALSE
    ELSE FALSE

\* config.py _parse_boolean_env
ParseBooleanEnv(v) == Lower(v) \in {"true", "1", "yes", "on"}

\* an explicit `enabled` of TelemetryConfig: None, True or False
ExplicitValues == {"None", "True", "False"}

\* config.py merge_config, the enabled field: the user's value if not None,
\* else the environment's if set, else DEFAULT_CONFIG["enabled"]
MergeEnabled(explicit, env) ==
    IF explicit # "None" THEN explicit = "True"
    ELSE IF env # "unset" THEN ParseBooleanEnv(env)
    ELSE FALSE

\* the two except clauses of _send_event, in order
SendEventHandlersNoGeneric == << {"URLError", "HTTPError", "TimeoutError"} >>
SendEventHandlers ==
    << {"URLError", "HTTPError", "TimeoutError"}, {"Exception"} >>

\* _send_event while enabled: one urlopen call inside try/except.
\* Result: was a request issued, did an exception leave the method.
SendEvent(o) ==
    [sent |-> TRUE,
     raised |-> /\ o.kind = "exc"
                /\ \A i \in 1..Len(SendEventHandlers) :
                       ~Catches(SendEventHandlers[i], o.cls)]

NoOutcome == [kind |-> "none", status |-> 0, cls |-> "none"]

\* what a client call returns: None, or a bool
PyBool(b) == IF b THEN "True" ELSE "False"

\* The client that queues events and flushes them on a timer: batch_size and
\* flush_interval are fields of TelemetryConfig; time passes in ticks.
AutoCfgs == [batch_size : 1..MaxAutoBatch, flush_interval : 1..MaxInterval]

\* _flush_timer: None, a timer that will fire in `left` ticks, a cancelled one
NoTimer == [state |-> "none", left |-> 0]
LiveTimer(interval) == [state |-> "live", left |-> interval]
CancelledTimer == [state |-> "cancelled", left |-> 0]

\* _schedule_flush(): a no-op once _shutdown is set, else a new timer of
\* flush_interval
ScheduledIgnoringShutdown(a) == LiveTimer(a.cfg.flush_interval)
Scheduled(a) ==
    IF a.shutdown THEN a.timer ELSE LiveTimer(a.cfg.flush_interval)

\* timer.cancel(): safe on a timer already cancelled, skipped when None
Cancelled(t) == IF t.state = "none" THEN NoTimer ELSE CancelledTimer

\* the client after construction: batching starts the timer
ConstructedWithoutTimer(cfg) ==
    [cfg |-> cfg, shutdown |-> FALSE, timer |-> NoTimer,
     queue |-> <<>>, sent |-> {}, last |-> "init"]
Constructed(cfg) ==
    [cfg |-> cfg, shutdown |-> FALSE,
     timer |-> IF cfg.batch_size > 1 THEN LiveTimer(cfg.flush_interval)
               ELSE NoTimer,
     queue |-> <<>>, sent |-> {}, last |-> "init"]

AutoIdle == Constructed([batch_size |-> 1, flush_interval |-> 1])

ClientIdle ==
    [op |-> "none", sent |-> FALSE, outcome |-> NoOutcome, raised |-> FALSE,
     value |-> "None", fs |-> "unused"]

InitClient ==
    /\ \E env \in EnvValues, optOut \in BOOLEAN, ci \in BOOLEAN, dev \in BOOLEAN :
          /\ enabled = IsTelemetryEnabled(env, optOut, ci, dev)
          /\ marker = optOut
    /\ identity \in [user_id : {"stored", "generated"}, session_id : {"uuid4"}]
    /\ clientReqs = 0
    /\ clientCalls = 0
    /\ clientLast = ClientIdle
    /\ auto = AutoIdle

GateOpen(e) == TRUE
Gate(e) == e

\* track_event / track_error / track_metric: all three build their data and
\* call _send_event
Track(op, o) ==
    /\ clientCalls < MaxClientCalls
    /\ clientCalls' = clientCalls + 1
    /\ IF ~Gate(enabled)
       THEN /\ clientLast' = [op |-> op, sent |-> FALSE, outcome |-> NoOutcome,
                               raised |-> FALSE, value |-> "None", fs |-> "unused"]
            /\ UNCHANGED clientReqs
       ELSE LET r == SendEvent(o) IN
            /\ clientLast' = [op |-> op, sent |-> r.sent, outcome |-> o,
                               raised |-> r.raised, value |-> "None", fs |-> "unused"]
            /\ clientReqs' = clientReqs + 1
    /\ UNCHANGED <<enabled, marker, identity>>

TrackEvent == \E o \in Outcomes : Track("track_event", o)
TrackError == \E o \in Outcomes : Track("track_error", o)
TrackMetric == \E o \in Outcomes : Track("track_metric", o)

\* enable(): the unlink of the marker may fail, the exception is swallowed
EnableKeepsFlag ==
    /\ clientCalls < MaxClientCalls
    /\ clientCalls' = clientCalls + 1
    /\ enabled' = enabled
    /\ \E fsOk \in BOOLEAN :
          /\ marker' = IF marker /\ fsOk THEN FALSE ELSE marker
          /\ clientLast' = [op |-> "enable", sent |-> FALSE,
                             outcome |-> NoOutcome, raised |-> FALSE,
                             value |-> "None",
                             fs |-> IF ~marker THEN "unused"
                                    ELSE IF fsOk THEN "ok" ELSE "failed"]
    /\ UNCHANGED <<clientReqs, identity>>
Enable ==
    /\ clientCalls < MaxClientCalls
    /\ clientCalls' = clientCalls + 1
    /\ enabled' = TRUE
    /\ \E fsOk \in BOOLEAN :
          /\ marker' = IF marker /\ fsOk THEN FALSE ELSE marker
          /\ clientLast' = [op |-> "enable", sent |-> FALSE,
                             outcome |-> NoOutcome, raised |-> FALSE,
                             value |-> "None",
                             fs |-> IF ~marker THEN "unused"
                                    ELSE IF fsOk THEN "ok" ELSE "failed"]
    /\ UNCHANGED <<clientReqs, identity>>

\* disable(): the touch of the marker may fail, the exception is swallowed
DisableResetsSession ==
    /\ clientCalls < MaxClientCalls
    /\ clientCalls' = clientCalls + 1
    /\ enabled' = FALSE
    /\ identity' = [identity EXCEPT !.session_id = "regenerated"]
    /\ \E fsOk \in BOOLEAN :
          /\ marker' = IF fsOk THEN TRUE ELSE marker
          /\ clientLast' = [op |-> "disable", sent |-> FALSE,
                             outcome |-> NoOutcome, raised |-> FALSE,
                             value |-> "None",
                             fs |-> IF fsOk THEN "ok" ELSE "failed"]
    /\ UNCHANGED clientReqs
Disable ==
    /\ clientCalls < MaxClientCalls
    /\ clientCalls' = clientCalls + 1
    /\ enabled' = FALSE
    /\ \E fsOk \in BOOLEAN :
          /\ marker' = IF fsOk THEN TRUE ELSE marker
          /\ clientLast' = [op |-> "disable", sent |-> FALSE,
                             outcome |-> NoOutcome, raised |-> FALSE,
                             value |-> "None",
                             fs |-> IF fsOk THEN "ok" ELSE "failed"]
    /\ UNCHANGED <<clientReqs, identity>>

\* is_enabled(): returns self.enabled
IsEnabled ==
    /\ clientCalls < MaxClientCalls
    /\ clientCalls' = clientCalls + 1
    /\ clientLast' = [op |-> "is_enabled", sent |-> FALSE,
                       outcome |-> NoOutcome, raised |-> FALSE,
                       value |-> PyBool(enabled), fs |-> "unused"]
    /\ UNCHANGED <<enabled, marker, clientReqs, identity>>

\* get_status(): a dict built from the fields of the client, the existence
\* of the marker and the environment; value is its "enabled" entry
GetStatusFromMarker ==
    /\ clientCalls < MaxClientCalls
    /\ clientCalls' = clientCalls + 1
    /\ clientLast' = [op |-> "get_status", sent |-> FALSE,
                       outcome |-> NoOutcome, raised |-> FALSE,
                       value |-> PyBool(~marker), fs |-> "unused"]
    /\ UNCHANGED <<enabled, marker, clientReqs, identity>>
GetStatus ==
    /\ clientCalls < MaxClientCalls
    /\ clientCalls' = clientCalls + 1
    /\ clientLast' = [op |-> "get_status", sent |-> FALSE,
                       outcome |-> NoOutcome, raised |-> FALSE,
                       value |-> PyBool(enabled), fs |-> "unused"]
    /\ UNCHANGED <<enabled, marker, clientReqs, identity>>

\* ========================================================= client payload
HexDigits ==
    {"0", "1", "2", "3", "4", "5", "6", "7", "8", "9",
     "a", "b", "c", "d", "e", "f"}

\* uuid.uuid4().hex: 32 hexadecimal digits; two of the values it can give
UuidHexLen == 32
UuidHexes ==
    { [i \in 1..UuidHexLen |-> "a"],
      [i \in 1..UuidHexLen |-> IF i % 2 = 0 THEN "0" ELSE "f"] }

\* trace_id = f"{uuid.uuid4().hex}{uuid.uuid4().hex}"
TraceId(u1, u2) == u1 \o u2

\* span_id = f"{uuid.uuid4().hex[:16]}"
SpanIdLen == 16
SpanId(u) == SubSeq(u, 1, SpanIdLen)

\* Python values of an attribute: a bool, a number, a string of some length
\* (s names its content), any other object (rendered by str())
AttrValues ==
    { [t |-> "bool", s |-> "True", len |-> 4],
      [t |-> "int", s |-> "3", len |-> 1],
      [t |-> "str", s |-> "v", len |-> 1],
      [t |-> "str", s |-> "long", len |-> 600] }

\* the keys callers use; "value" is also the key track_metric sets
AttrKeys == {"k", "value"}

EmptyDict == [k \in {} |-> [t |-> "str", s |-> "", len |-> 0]]

\* the dicts callers pass: any value under "k", a string under "value"
Dicts ==
    { d \in UNION { [S -> AttrValues] : S \in SUBSET AttrKeys } :
         "value" \in DOMAIN d => d["value"] = [t |-> "str", s |-> "v", len |-> 1] }

\* the optional attributes argument: None (or omitted), or a dict
AttrArgs ==
    {[none |-> TRUE, d |-> EmptyDict]} \cup {[none |-> FALSE, d |-> d] : d \in Dicts}

\* `attributes or {}`
OrEmpty(a) == IF a.none THEN EmptyDict ELSE a.d

\* {**d1, **d2}: the entries of d2 win
Merged(d1, d2) ==
    [k \in DOMAIN d1 \cup DOMAIN d2 |-> IF k \in DOMAIN d2 THEN d2[k] ELSE d1[k]]

\* the longest string _create_attributes lets through
MaxStringLen == 500

\* _create_attributes, one value: bool -> boolValue, int/float -> doubleValue
\* of float(value), anything else -> stringValue of str(value)[:500]
OtlpValue(v) ==
    CASE v.t = "bool" -> [kind |-> "boolValue", s |-> v.s, len |-> v.len]
      [] v.t \in {"int", "float"} -> [kind |-> "doubleValue", s |-> v.s, len |-> v.len]
      [] OTHER -> [kind |-> "stringValue", s |-> v.s,
                   len |-> IF v.len > MaxStringLen THEN MaxStringLen ELSE v.len]

\* _get_system_info
SystemInfo ==
    [os |-> [t |-> "str", s |-> "platform.system", len |-> 5],
     os_version |-> [t |-> "str", s |-> "platform.release", len |-> 6],
     python_version |-> [t |-> "str", s |-> "sys.version_info", len |-> 6],
     architecture |-> [t |-> "str", s |-> "platform.machine", len |-> 6],
     is_docker |-> [t |-> "bool", s |-> "False", len |-> 5],
     project_name |-> [t |-> "str", s |-> "project_name", len |-> 4],
     project_version |-> [t |-> "str", s |-> "project_version", len |-> 5],
     organization |-> [t |-> "str", s |-> "organization", len |-> 8]]

\* _create_attributes: the system information under "system.<key>", then the
\* entries of data; the list is kept as the set of its elements
CreateAttributesSystemOnly(data) ==
    { [key |-> "system." \o k, value |-> OtlpValue(SystemInfo[k])] :
          k \in DOMAIN SystemInfo }
CreateAttributes(data) ==
    { [key |-> "system." \o k, value |-> OtlpValue(SystemInfo[k])] :
          k \in DOMAIN SystemInfo }
    \cup { [key |-> k, value |-> OtlpValue(data[k])] : k \in DOMAIN data }

\* the payload _send_event builds: one resourceSpans entry, one scopeSpans
\* entry, one span
Payload(event_type, data, u1, u2, u3) ==
    [resourceSpans |->
       << [resource |->
              {"service.name", "service.version", "service.organization",
               "user.id", "session.id", "telemetry.sdk.name",
               "telemetry.sdk.version"},
           scopeSpans |->
              << [scope |-> "project_name.telemetry",
                  spans |->
                     << [traceId |-> TraceId(u1, u2),
                         spanId |-> SpanId(u3),
                         name |-> event_type,
                         kind |-> "SPAN_KIND_INTERNAL",
                         attributes |-> CreateAttributes(data),
                         status |-> "STATUS_CODE_OK"] >>] >>] >>]

\* a request: its method and parsed body; Request(url, data=...) is a POST
NoRequest == [method |-> "none"]
PostRequest(body) == [method |-> "POST", body |-> body]

\* the exception a caller hands to track_error
Errors == {[type |-> "ValueError", message |-> [t |-> "str", s |-> "msg", len |-> 3]],
           [type |-> "RuntimeError", message |-> [t |-> "str", s |-> "long", len |-> 600]]}

\* str(error)[:500]
Truncated(v) ==
    [v EXCEPT !.len = IF @ > MaxStringLen THEN MaxStringLen ELSE @]

\* the event type and data a track_* call hands to _send_event
TrackCall(op, name, err, value, a) ==
    CASE op = "track_event" -> [event_type |-> name, data |-> OrEmpty(a)]
      [] op = "track_error" ->
            [event_type |-> "automagik.error",
             data |-> Merged([k \in {"error_type", "error_message"} |->
                                IF k = "error_type"
                                THEN [t |-> "str", s |-> err.type, len |-> Len(err.type)]
                                ELSE Truncated(err.message)],
                             OrEmpty(a))]
      [] op = "track_metric" ->
            [event_type |-> name,
             data |-> Merged([k \in {"value"} |-> value], OrEmpty(a))]

\* the names callers give to events and metrics
EventNames == {"test.event", "cpu.usage"}

\* the value a caller hands to track_metric
MetricValue == [t |-> "int", s |-> "3", len |-> 1]

\* what urlopen gives in the scenario of request bodies
PayloadOutcomes == {Resp(200), Raise("URLError", 0)}

\* the three uuid4 values one _send_event call draws
UuidDraws ==
    { <<u1, u2, u1>> : u1 \in UuidHexes, u2 \in UuidHexes } \ { <<u, u, u>> : u \in UuidHexes }

\* a track_* call of the scenario of request bodies, with the arguments it
\* was given (c its event type and data) and the request it issued
TrackWith(op, name, a, c) ==
    /\ clientCalls < MaxPayloadCalls
    /\ \E o \in PayloadOutcomes, u \in UuidDraws :
          /\ Track(op, o)
          /\ probe' = [fn |-> op, name |-> name, attrs |-> OrEmpty(a),
                       req |-> IF Gate(enabled)
                               THEN PostRequest(Payload(c.event_type, c.data,
                                                        u[1], u[2], u[3]))
                               ELSE NoRequest]

TrackEventWith ==
    \E name \in EventNames, a \in AttrArgs :
       TrackWith("track_event", name, a,
                 TrackCall("track_event", name, CHOOSE e \in Errors : TRUE,
                           MetricValue, a))
TrackErrorWith ==
    \E err \in Errors, a \in AttrArgs :
       TrackWith("track_error", err.type, a,
                 TrackCall("track_error", "none", err, MetricValue, a))
TrackMetricWith ==
    \E name \in {"cpu.usage"}, a \in AttrArgs :
       TrackWith("track_metric", name, a,
                 TrackCall("track_metric", name, CHOOSE e \in Errors : TRUE,
                           MetricValue, a))

\* ========================================================= batching client
\* the ids of the queued events
QueuedIds(a) == {a.queue[i].id : i \in 1..Len(a.queue)}

\* flush(): every queued event is transmitted, the queue is emptied
Flushed(a) == [a EXCEPT !.sent = @ \cup QueuedIds(a), !.queue = <<>>]

\* the id of the next event
NextId(a) == Cardinality(a.sent) + Len(a.queue) + 1

\* track_event while enabled: the event is queued, and the queue is flushed
\* when it has reached batch_size
Queued(a) ==
    IF Len(a.queue) + 1 >= a.cfg.batch_size
    THEN Flushed([a EXCEPT !.queue = Append(@, [id |-> NextId(a), age |-> 0])])
    ELSE [a EXCEPT !.queue = Append(@, [id |-> NextId(a), age |-> 0])]

AutoTrackEvent ==
    /\ NextId(auto) <= MaxAutoCalls
    /\ auto' = [(IF Gate(enabled) THEN Queued(auto) ELSE auto)
                   EXCEPT !.last = "track_event"]
    /\ UNCHANGED <<enabled, identity, marker, clientReqs, clientCalls, clientLast>>

\* an explicit flush() call
AutoFlush ==
    /\ auto' = [Flushed(auto) EXCEPT !.last = "flush"]
    /\ UNCHANGED <<enabled, identity, marker, clientReqs, clientCalls, clientLast>>

\* the timer fires: it never does once _shutdown is set; it flushes and
\* schedules the next flush
TimerFire ==
    /\ auto.timer.state = "live"
    /\ auto.timer.left = 0
    /\ ~auto.shutdown
    /\ auto' = [Flushed(auto) EXCEPT !.timer = Scheduled(auto),
                                     !.last = "timer_fire"]
    /\ UNCHANGED <<enabled, identity, marker, clientReqs, clientCalls, clientLast>>

\* _schedule_flush() called directly
ScheduleFlush ==
    /\ auto' = [auto EXCEPT !.timer = Scheduled(auto), !.last = "_schedule_flush"]
    /\ UNCHANGED <<enabled, identity, marker, clientReqs, clientCalls, clientLast>>

\* _flush_timer.cancel() called directly
CancelTimer ==
    /\ auto' = [auto EXCEPT !.timer = Cancelled(@), !.last = "cancel"]
    /\ UNCHANGED <<enabled, identity, marker, clientReqs, clientCalls, clientLast>>

\* shutdown: the flag is set and the timer cancelled
Shutdown ==
    /\ auto' = [auto EXCEPT !.shutdown = TRUE, !.timer = Cancelled(@),
                            !.last = "shutdown"]
    /\ UNCHANGED <<enabled, identity, marker, clientReqs, clientCalls, clientLast>>

\* an age past which a queued event is late whatever the interval
Late == MaxInterval + 1

\* one tick of time: a live timer comes nearer to firing and fires before
\* time passes its deadline; the queued events age
Tick ==
    /\ ~(auto.timer.state = "live" /\ auto.timer.left = 0)
    /\ auto' = [auto EXCEPT
                  !.timer = IF @.state = "live" THEN [@ EXCEPT !.left = @ - 1]
                            ELSE @,
                  !.queue = [i \in 1..Len(@) |->
                               [@[i] EXCEPT !.age = IF @ < Late THEN @ + 1 ELSE @]],
                  !.last = "tick"]
    /\ UNCHANGED <<enabled, identity, marker, clientReqs, clientCalls, clientLast>>

\* ============================================================= OTLP backend
Signals == {"trace", "metric", "log"}

\* OTLPBackend.send_trace / send_metric / send_log pick the endpoint
OtlpEndpointTracesOnly(sig) == "endpoint"
OtlpEndpoint(sig) ==
    CASE sig = "trace" -> "endpoint"
      [] sig = "metric" -> "metrics_endpoint"
      [] sig = "log" -> "logs_endpoint"

\* the `except (URLError, HTTPError, TimeoutError)` clause inside the loop
OtlpRetryHandler == {"URLError", "HTTPError", "TimeoutError"}

\* number of iterations of `for attempt in range(self.max_retries + 1)`
OtlpLoopRangeShort(n) == n
OtlpLoopRange(n) == n + 1

\* One iteration of the retry loop of _send_with_retry and, recursively, the
\* rest of the loop.  attempt is the 0-based loop index, seen the outcomes of
\* the attempts made so far, sleeps the backoff factors 2**attempt slept.
RECURSIVE OtlpLoop(_, _, _, _, _)
OtlpLoop(n, srv, attempt, seen, sleeps) ==
    IF attempt >= OtlpLoopRange(n)
    THEN [ret |-> FALSE, outcomes |-> seen, sleeps |-> sleeps]
    ELSE LET o == OutcomeAt(srv, attempt + 1)
             seen2 == Append(seen, o)
             again == OtlpLoop(n, srv, attempt + 1, seen2,
                               IF attempt < n THEN Append(sleeps, 2 ^ attempt)
                                              ELSE sleeps)
             stop(r) == [ret |-> r, outcomes |-> seen2, sleeps |-> sleeps]
         IN IF o.kind = "resp"
            THEN IF o.status = 200 THEN stop(TRUE)
                 ELSE IF o.status >= 500 THEN again
                 ELSE stop(FALSE)
            ELSE IF Catches(OtlpRetryHandler, o.cls)
                 THEN IF o.cls = "HTTPError" /\ o.status < 500
                      THEN stop(FALSE)
                      ELSE again
                 ELSE stop(FALSE)     \* outer `except Exception`

\* _send_with_retry: json.dumps of an unserializable payload raises inside
\* the outer try and gives False without any HTTP attempt
SendWithRetry(n, serializable, srv) ==
    IF ~serializable
    THEN [ret |-> FALSE, outcomes |-> <<>>, sleeps |-> <<>>]
    ELSE OtlpLoop(n, srv, 0, <<>>, <<>>)

OtlpIdle ==
    [op |-> "none", endpoint |-> "none", serialized |-> FALSE, ret |-> TRUE,
     outcomes |-> <<>>, sleeps |-> <<>>]

InitOtlp ==
    /\ otlpCfg \in [max_retries : 0..MaxRetries]
    /\ otlpCalls = 0
    /\ otlpLast = OtlpIdle

\* the record of a send_* call that ran _send_with_retry with result r
OtlpSent(sig, serializable, r) ==
    [op |-> "send_" \o sig, endpoint |-> OtlpEndpoint(sig),
     serialized |-> serializable, ret |-> r.ret, outcomes |-> r.outcomes,
     sleeps |-> r.sleeps]

OtlpSend(sig) ==
    /\ backend = "otlp"
    /\ otlpCalls < MaxOtlpCalls
    /\ otlpCalls' = otlpCalls + 1
    /\ \E serializable \in BOOLEAN, srv \in Servers :
          otlpLast' = OtlpSent(sig, serializable,
                               SendWithRetry(otlpCfg.max_retries, serializable, srv))
    /\ UNCHANGED otlpCfg

OtlpSendTrace == OtlpSend("trace")
OtlpSendMetric == OtlpSend("metric")
OtlpSendLog == OtlpSend("log")

\* OTLPBackend.flush: nothing is buffered
OtlpFlush ==
    /\ backend = "otlp"
    /\ otlpCalls < MaxOtlpCalls
    /\ otlpCalls' = otlpCalls + 1
    /\ otlpLast' = [op |-> "flush", endpoint |-> "none", serialized |-> FALSE,
                    ret |-> TRUE, outcomes |-> <<>>, sleeps |-> <<>>]
    /\ UNCHANGED otlpCfg

\* ======================================================= ClickHouse backend
Tables == {"traces", "metrics", "logs"}

\* what a caller hands to send_*: a payload the transform accepts and json
\* can serialize, one whose row json.dumps rejects, one the transform rejects
Payloads == {"ok", "unserializable", "malformed"}

\* the `except (HTTPError, URLError, TimeoutError, Exception)` clause
ChRetryHandler == {"HTTPError", "URLError", "TimeoutError", "Exception"}

\* number of iterations of `for attempt in range(self.max_retries)`
ChLoopRangeLong(n) == n + 2

ChLoopRange(n) == n

\* what one attempt of _insert_batch does with an outcome
ChClassifyTerminal5xx(o) ==
    IF o.kind = "resp" /\ o.status = 200 THEN "success" ELSE "terminal"

ChClassifyRetry4xx(o) ==
    IF o.kind = "resp" /\ o.status = 200 THEN "success" ELSE "retry"
ChClassify(o) ==
    IF o.kind = "resp"
    THEN IF o.status = 200 THEN "success"
         ELSE IF o.status >= 500 THEN "retry"
         ELSE "terminal"
    ELSE IF ~Catches(ChRetryHandler, o.cls) THEN "raise"
    ELSE IF o.cls = "HTTPError" /\ o.status < 500 THEN "terminal"
    ELSE "retry"

\* The retry loop of _insert_batch.  g0 is the index of the call's next HTTP
\* attempt, attempt the 0-based loop index.
RECURSIVE ChLoop(_, _, _, _, _, _)
ChLoop(n, srv, g0, attempt, seen, sleeps) ==
    IF attempt >= ChLoopRange(n)
    THEN [ret |-> FALSE, raised |-> FALSE, outcomes |-> seen, sleeps |-> sleeps]
    ELSE LET o == OutcomeAt(srv, g0 + attempt)
             seen2 == Append(seen, o)
             c == ChClassify(o)
         IN CASE c = "success" ->
                   [ret |-> TRUE, raised |-> FALSE, outcomes |-> seen2,
                    sleeps |-> sleeps]
              [] c = "terminal" ->
                   [ret |-> FALSE, raised |-> FALSE, outcomes |-> seen2,
                    sleeps |-> sleeps]
              [] c = "raise" ->
                   [ret |-> FALSE, raised |-> TRUE, outcomes |-> seen2,
                    sleeps |-> sleeps]
              [] OTHER ->
                   ChLoop(n, srv, g0, attempt + 1, seen2,
                          IF attempt < n - 1 THEN Append(sleeps, 2 ^ attempt)
                                             ELSE sleeps)

\* the result r of the retry loop, with the table and rows of the insert
InsertRecord(table, rows, r) ==
    [table |-> table, rows |-> rows, ret |-> r.ret, raised |-> r.raised,
     outcomes |-> r.outcomes, sleeps |-> r.sleeps]

\* _insert_batch(rows, table): the json.dumps of the rows is outside any try
InsertBatch(n, rows, table, srv, g0) ==
    IF rows = <<>>
    THEN [table |-> table, rows |-> rows, ret |-> TRUE, raised |-> FALSE,
          outcomes |-> <<>>, sleeps |-> <<>>]
    ELSE IF \E i \in 1..Len(rows) : ~rows[i].ser
    THEN [table |-> table, rows |-> rows, ret |-> FALSE, raised |-> TRUE,
          outcomes |-> <<>>, sleeps |-> <<>>]
    ELSE InsertRecord(table, rows, ChLoop(n, srv, g0, 0, <<>>, <<>>))

\* `finally: self._xxx_batch.clear()` in flush
AfterInsertRequeue(batch, ins) == IF ins.ret THEN <<>> ELSE batch
AfterInsert(batch, ins) == <<>>

\* flush() before its first batch: success = True, no request issued yet
FlushStart ==
    [raised |-> FALSE, ret |-> TRUE, g |-> 1, inserts |-> <<>>, left |-> <<>>]

\* one `if batch: try: ... finally: batch.clear()` block of flush() after
\* its insert gave ins
FlushInserted(acc, batch, ins) ==
    [raised |-> ins.raised,
     ret |-> acc.ret /\ ins.ret,
     g |-> acc.g + Len(ins.outcomes),
     inserts |-> Append(acc.inserts, ins),
     left |-> Append(acc.left, AfterInsert(batch, ins))]

\* one block of flush(): skipped when the batch is empty, not reached when
\* an earlier insert raised
FlushOne(n, srv, acc, batch, table) ==
    IF acc.raised \/ batch = <<>>
    THEN [acc EXCEPT !.left = Append(@, batch)]
    ELSE FlushInserted(acc, batch, InsertBatch(n, batch, table, srv, acc.g))

\* what flush() leaves: its result and the three batches
FlushResult(acc) ==
    [raised |-> acc.raised, ret |-> acc.ret, inserts |-> acc.inserts,
     tb |-> acc.left[1], mb |-> acc.left[2], lb |-> acc.left[3]]

\* flush(): traces, then metrics, then logs; an exception of _insert_batch
\* leaves flush after the finally clause of the batch being inserted
ChFlushTracesTable(n, tb, mb, lb, srv) ==
    FlushResult(
        FlushOne(n, srv,
            FlushOne(n, srv,
                FlushOne(n, srv, FlushStart, tb, "traces"),
                mb, "traces"),
            lb, "traces"))

ChFlush(n, tb, mb, lb, srv) ==
    FlushResult(
        FlushOne(n, srv,
            FlushOne(n, srv,
                FlushOne(n, srv, FlushStart, tb, "traces"),
                mb, "metrics"),
            lb, "logs"))

\* send_trace / send_metric / send_log end with `return True` inside a
\* try whose `except Exception` returns False; the result of the flush that
\* add_to_batch or the send itself triggers is discarded
SendResult(f) == ~f.raised

\* the flush result of a call that did not flush
NoFlush ==
    [raised |-> FALSE, ret |-> TRUE, inserts |-> <<>>, tb |-> <<>>,
     mb |-> <<>>, lb |-> <<>>]

ChIdle ==
    [op |-> "none", ret |-> TRUE, raised |-> FALSE, flushed |-> FALSE,
     flushRet |-> TRUE, flushRaised |-> FALSE, inserts |-> <<>>,
     pre |-> <<0, 0, 0>>]

\* number of the inserts of one flush that a row id was part of
InsertsOf(inserts, id) ==
    Cardinality({i \in 1..Len(inserts) :
                    \E j \in 1..Len(inserts[i].rows) : inserts[i].rows[j].id = id})

\* bookkeeping of the inserts of a flush, ids being the rows created so far
Account(f, ids) ==
    insertCount' = [i \in ids |->
                       (IF i \in DOMAIN insertCount THEN insertCount[i] ELSE 0)
                       + InsertsOf(f.inserts, i)]

\* the state after a call op whose flush (if any) gave f; ids are the rows
\* created so far, pre the batch lengths the flush found
Commit(op, ret, raised, flushed, f, pre, ids) ==
    /\ trace_batch' = f.tb
    /\ metric_batch' = f.mb
    /\ log_batch' = f.lb
    /\ chLast' = [op |-> op, ret |-> ret, raised |-> raised,
                  flushed |-> flushed, flushRet |-> f.ret,
                  flushRaised |-> f.raised, inserts |-> f.inserts,
                  pre |-> pre]
    /\ Account(f, ids)

\* a send that appended its row: the auto-flush when the batch of the signal
\* has reached batch_size
Appended(op, own, tb1, mb1, lb1, srvs, ids) ==
    IF Len(own) >= chCfg.batch_size
    THEN \E srv \in srvs :
            Commit(op, SendResult(ChFlush(chCfg.max_retries, tb1, mb1, lb1, srv)),
                   FALSE, TRUE,
                   ChFlush(chCfg.max_retries, tb1, mb1, lb1, srv),
                   <<Len(tb1), Len(mb1), Len(lb1)>>, ids)
    ELSE Commit(op, SendResult(NoFlush), FALSE, FALSE,
                [NoFlush EXCEPT !.tb = tb1, !.mb = mb1, !.lb = lb1],
                <<0, 0, 0>>, ids)

\* the row a send_* call builds from its payload
Row(id, sig, p) == [id |-> id, sig |-> sig, ser |-> (p = "ok")]

\* self._xxx_batch.append(row)
BatchPrepend(batch, row) == <<row>> \o batch
BatchAppend(batch, row) == Append(batch, row)

\* send_trace (through add_to_batch), send_metric, send_log.  srvs is the set
\* of server behaviours the call may meet if it reaches the network.
ChSend(sig, p, srvs) ==
    /\ calls' = calls + 1
    /\ UNCHANGED chCfg
    /\ IF p = "malformed"
       THEN /\ chLast' = [op |-> "send_" \o sig, ret |-> FALSE,
                          raised |-> FALSE, flushed |-> FALSE,
                          flushRet |-> TRUE, flushRaised |-> FALSE,
                          inserts |-> <<>>, pre |-> <<0, 0, 0>>]
            /\ UNCHANGED <<trace_batch, metric_batch, log_batch, insertCount>>
       ELSE CASE sig = "trace" ->
                   Appended("send_trace",
                            BatchAppend(trace_batch, Row(calls + 1, sig, p)),
                            BatchAppend(trace_batch, Row(calls + 1, sig, p)),
                            metric_batch, log_batch, srvs,
                            DOMAIN insertCount \cup {calls + 1})
              [] sig = "metric" ->
                   Appended("send_metric",
                            BatchAppend(metric_batch, Row(calls + 1, sig, p)),
                            trace_batch,
                            BatchAppend(metric_batch, Row(calls + 1, sig, p)),
                            log_batch, srvs,
                            DOMAIN insertCount \cup {calls + 1})
              [] sig = "log" ->
                   Appended("send_log",
                            BatchAppend(log_batch, Row(calls + 1, sig, p)),
                            trace_batch, metric_batch,
                            BatchAppend(log_batch, Row(calls + 1, sig, p)), srvs,
                            DOMAIN insertCount \cup {calls + 1})

SendTrace ==
    /\ backend = "clickhouse"
    /\ calls < MaxCalls
    /\ \E p \in Payloads : ChSend("trace", p, Servers)

SendMetric ==
    /\ backend = "clickhouse"
    /\ calls < MaxCalls
    /\ \E p \in Payloads : ChSend("metric", p, Servers)

SendLog ==
    /\ backend = "clickhouse"
    /\ calls < MaxCalls
    /\ \E p \in Payloads : ChSend("log", p, Servers)

Always200 == [first |-> Resp(200), rest |-> Resp(200)]

\* some batch holds a row, so that a flush reaches _insert_batch
Pending == trace_batch # <<>> \/ metric_batch # <<>> \/ log_batch # <<>>

\* a flush() call that may meet any of the server behaviours srvs
FlushCall(srvs) ==
    /\ calls' = calls + 1
    /\ \E srv \in srvs :
          Commit("flush",
                 ChFlush(chCfg.max_retries, trace_batch, metric_batch,
                         log_batch, srv).ret,
                 ChFlush(chCfg.max_retries, trace_batch, metric_batch,
                         log_batch, srv).raised,
                 TRUE,
                 ChFlush(chCfg.max_retries, trace_batch, metric_batch,
                         log_batch, srv),
                 <<Len(trace_batch), Len(metric_batch), Len(log_batch)>>,
                 DOMAIN insertCount)
    /\ UNCHANGED chCfg

\* an explicit flush() call
Flush ==
    /\ backend = "clickhouse"
    /\ calls < MaxCalls
    /\ FlushCall(IF Pending THEN Servers ELSE {Always200})

\* the scenario of repeated flushes: sends that meet a healthy server, so
\* that what a flush finds depends on the payloads only
QuietSend ==
    /\ backend = "clickhouse"
    /\ calls < MaxFlushCalls
    /\ \E sig \in Signals, p \in {"ok", "unserializable"} :
          ChSend(sig, p, {Always200})

\* a flush() call of the scenario of repeated flushes
AnyFlush ==
    /\ backend = "clickhouse"
    /\ calls < MaxFlushCalls
    /\ FlushCall(IF Pending THEN Servers ELSE {Always200})

\* the scenario of a backend that only receives well-formed spans while the
\* server answers 200
SendTraceOk ==
    /\ backend = "clickhouse"
    /\ calls < MaxTraceCalls
    /\ ChSend("trace", "ok", {Always200})

\* ================================================ ClickHouse, several threads
\* Threads calling send_trace and flush on one backend.  A thread switch can
\* happen between any two of: the append of send_trace, the serialization of
\* the batch at the start of _insert_batch, its HTTP request, and the
\* clear() in the finally clause of flush.  Only spans are sent, so the
\* blocks of flush for the metric and log batches find them empty.
Threads == 1..MaxThreads

ThreadIdle == [pc |-> "idle", body |-> <<>>]
NoThreads == [t \in Threads |-> ThreadIdle]

\* the rows created so far
RowIds == DOMAIN insertCount

\* send_trace up to its return or to the flush of add_to_batch: the row is
\* appended, and the thread enters flush() when the batch has reached
\* batch_size
ThreadSendTrace(t) ==
    /\ threads[t].pc = "idle"
    /\ Len(insertCount) < MaxThreadRows
    /\ trace_batch' = BatchAppend(trace_batch, Row(Len(insertCount) + 1, "trace", "ok"))
    /\ insertCount' = Append(insertCount, 0)
    /\ threads' = [threads EXCEPT ![t].pc =
                      IF Len(trace_batch) + 1 >= chCfg.batch_size
                      THEN "flush" ELSE "idle"]
    /\ UNCHANGED <<chCfg, metric_batch, log_batch, calls, chLast>>

\* a thread calls flush()
ThreadFlush(t) ==
    /\ threads[t].pc = "idle"
    /\ threads' = [threads EXCEPT ![t].pc = "flush"]
    /\ UNCHANGED <<chCfg, trace_batch, metric_batch, log_batch, calls,
                   insertCount, chLast>>

\* flush(): `if self._trace_batch:` and the start of _insert_batch, which
\* serializes the rows the batch holds now; an empty batch ends the flush
ThreadSerialize(t) ==
    /\ threads[t].pc = "flush"
    /\ threads' = [threads EXCEPT ![t] =
                      IF trace_batch = <<>> THEN ThreadIdle
                      ELSE [pc |-> "post", body |-> trace_batch]]
    /\ UNCHANGED <<chCfg, trace_batch, metric_batch, log_batch, calls,
                   insertCount, chLast>>

\* the rows of a body, counted as part of one more insert
Counted(body) ==
    [id \in RowIds |->
        insertCount[id]
        + (IF \E i \in 1..Len(body) : body[i].id = id THEN 1 ELSE 0)]

\* _insert_batch: the HTTP request with the serialized rows, answered 200
ThreadPost(t) ==
    /\ threads[t].pc = "post"
    /\ insertCount' = Counted(threads[t].body)
    /\ threads' = [threads EXCEPT ![t].pc = "clear"]
    /\ UNCHANGED <<chCfg, trace_batch, metric_batch, log_batch, calls, chLast>>

\* flush(): `finally: self._trace_batch.clear()` empties the list as it is
\* now; the call returns
ThreadClear(t) ==
    /\ threads[t].pc = "clear"
    /\ trace_batch' = <<>>
    /\ threads' = [threads EXCEPT ![t] = ThreadIdle]
    /\ UNCHANGED <<chCfg, metric_batch, log_batch, calls, insertCount, chLast>>

\* ================================================== ClickHouse send_metric
\* an argument the caller did not pass (a key the dict payload lacks)
NoArg == "<absent>"

\* the three calling conventions: send_metric({...}), send_metric("name",
\* value=...), send_metric(metric_name="name", value=...)
Conventions == {"dict", "str", "kwargs"}

\* Python values of the value argument: not passed, None, an int, a float
Absent == [k |-> "absent", v |-> 0]
None == [k |-> "none", v |-> 0]
PyInt(n) == [k |-> "int", v |-> n]
PyFloat(n) == [k |-> "float", v |-> n]

NsPerSecond == 1000000000

\* a datetime: wall-clock seconds and microseconds, and its tzinfo (none for
\* a naive datetime, else the UTC offset in seconds)
Datetime(sec, micro, aware, off) ==
    [k |-> "datetime", sec |-> sec, micro |-> micro, aware |-> aware,
     off |-> off]
NoDatetime == [k |-> "none", sec |-> 0, micro |-> 0, aware |-> FALSE, off |-> 0]

\* datetime.now(UTC) at the time of the call made at second t
NowUtc(t) == Datetime(t, 0, TRUE, 0)

\* int(timestamp.timestamp() * 1_000_000_000): a naive datetime is taken as
\* local time, an aware one is shifted by its own offset
TimestampNs(dt, local_off) ==
    (dt.sec - (IF dt.aware THEN dt.off ELSE local_off)) * NsPerSecond
        + dt.micro * 1000

\* a "%Y-%m-%d %H:%M:%S" string, named by the second it spells out
TimeString(sec) == [ymdhms |-> sec]

\* timestamp.strftime("%Y-%m-%d %H:%M:%S"): the wall clock of the datetime,
\* microseconds dropped, no conversion to UTC
Strftime(dt) == TimeString(dt.sec)

\* datetime.fromtimestamp(ns / 1_000_000_000, tz=UTC).strftime(...)
FormatUtc(ns) == TimeString(ns \div NsPerSecond)

\* a dict, as the set of its <<key, value>> items
DictGet(d, key, default) ==
    IF \E item \in d : item[1] = key
    THEN (CHOOSE item \in d : item[1] = key)[2]
    ELSE default

\* str.upper() on the metric types that occur
Upper(t) ==
    CASE t = "gauge" -> "GAUGE"
      [] t = "counter" -> "COUNTER"
      [] t = "Counter" -> "COUNTER"
      [] t = "sum" -> "SUM"
      [] t = "histogram" -> "HISTOGRAM"
      [] t = "summary" -> "SUMMARY"
      [] t = "bogus" -> "BOGUS"
      [] OTHER -> t

ValidTypes == {"GAUGE", "SUM", "HISTOGRAM", "EXPONENTIAL_HISTOGRAM", "SUMMARY"}

\* the metric_type column: upper case, COUNTER mapped to SUM, anything
\* unknown to GAUGE
ClickHouseTypeCaseSensitive(t) ==
    IF t = "COUNTER" THEN "SUM"
    ELSE IF t \in ValidTypes THEN t
    ELSE "GAUGE"
ClickHouseType(t) ==
    IF Upper(t) = "COUNTER" THEN "SUM"
    ELSE IF Upper(t) \in ValidTypes THEN Upper(t)
    ELSE "GAUGE"

\* `x if x was passed else default`
OrDefault(x, default) == IF x = NoArg THEN default ELSE x

\* The locals of send_metric after its if/elif/else over the payload.  m is
\* what the caller supplies; in the dict convention every supplied field is a
\* key of the payload and the value parameter stays None.
MetricArgsDictDropsUnit(conv, m) ==
    [metric_name |-> OrDefault(m.name, ""),
     metric_value |-> IF conv = "dict"
                      THEN (IF m.value = Absent THEN PyFloat(0) ELSE m.value)
                      ELSE (IF m.value \in {Absent, None} THEN PyFloat(0)
                                                          ELSE m.value),
     value |-> IF conv = "dict" \/ m.value = Absent THEN None ELSE m.value,
     is_dict |-> (conv = "dict"),
     metric_type |-> OrDefault(m.metric_type, "gauge"),
     unit |-> IF conv = "dict" THEN "" ELSE OrDefault(m.unit, ""),
     attributes |-> m.attributes,
     resource_attributes |-> m.resource_attributes,
     timestamp |-> m.timestamp]
MetricArgs(conv, m) ==
    [metric_name |-> OrDefault(m.name, ""),
     metric_value |-> IF conv = "dict"
                      THEN (IF m.value = Absent THEN PyFloat(0) ELSE m.value)
                      ELSE (IF m.value \in {Absent, None} THEN PyFloat(0)
                                                          ELSE m.value),
     value |-> IF conv = "dict" \/ m.value = Absent THEN None ELSE m.value,
     is_dict |-> (conv = "dict"),
     metric_type |-> OrDefault(m.metric_type, "gauge"),
     unit |-> OrDefault(m.unit, ""),
     attributes |-> m.attributes,
     resource_attributes |-> m.resource_attributes,
     timestamp |-> m.timestamp]

\* the row send_metric builds; ts is the timestamp after its default
MetricRow(a, ts, local_off, id) ==
    [metric_id |-> id,
     metric_name |-> a.metric_name,
     metric_type |-> ClickHouseType(a.metric_type),
     metric_unit |-> a.unit,
     timestamp |-> Strftime(ts),
     timestamp_ns |-> TimestampNs(ts, local_off),
     value_int |-> IF a.metric_value.k = "int" THEN a.metric_value.v ELSE 0,
     value_double |-> IF a.metric_value.k = "int" THEN 0 ELSE a.metric_value.v,
     is_monotonic |-> IF ClickHouseType(a.metric_type) = "SUM" THEN 1 ELSE 0,
     aggregation_temporality |-> IF ClickHouseType(a.metric_type) = "SUM"
                                 THEN "DELTA" ELSE "UNSPECIFIED",
     service_name |-> DictGet(a.resource_attributes, "service.name", "unknown"),
     attributes |-> a.attributes,
     user_id |-> DictGet(a.attributes, "user.id", "")]

\* what a send_metric call gives before its row reaches the batch
Rejected == [done |-> TRUE, ret |-> FALSE, rows |-> <<>>]
Accepted(row) == [done |-> TRUE, ret |-> TRUE, rows |-> <<row>>]
NotCalled == [done |-> FALSE, ret |-> FALSE, rows |-> <<>>]

\* send_metric from its validation to the finished row: the two checks, the
\* defaults, and float(None) raising TypeError into `except Exception`
MetricBuild(a, now, local_off, id) ==
    IF a.metric_name = "" THEN Rejected
    ELSE IF a.value = None /\ ~a.is_dict THEN Rejected
    ELSE IF a.metric_value = None THEN Rejected
    ELSE Accepted(MetricRow(a,
                            IF a.timestamp = NoDatetime THEN NowUtc(now)
                                                        ELSE a.timestamp,
                            local_off, id))

\* what callers supply in the scenario of one metric sent in each convention
MetricInputs ==
    [name : {NoArg, "", "cpu"},
     value : {Absent, None, PyInt(2), PyFloat(3)},
     metric_type : {NoArg, "counter", "Counter", "SUM", "histogram",
                    "EXPONENTIAL_HISTOGRAM", "summary", "bogus"},
     unit : {NoArg, "ms"},
     attributes : {{}, {<<"user.id", "u1">>}},
     resource_attributes : {{}, {<<"service.name", "svc">>}},
     timestamp : {NoDatetime, Datetime(1, 999999, FALSE, 0),
                  Datetime(1, 0, TRUE, 1)}]

\* send_metric in one convention, for the metric under study
MetricSend(conv) ==
    /\ backend = "clickhouse"
    /\ probe.fn = "metric"
    /\ ~probe.res[conv].done
    /\ conv = "str" => probe.in.name # NoArg
    /\ probe' = [probe EXCEPT !.res[conv] =
                    MetricBuild(MetricArgs(conv, probe.in), calls,
                                probe.local_off, calls + 1)]
    /\ ChSend("metric",
              IF MetricBuild(MetricArgs(conv, probe.in), calls,
                             probe.local_off, calls + 1).ret
              THEN "ok" ELSE "malformed",
              {Always200})

SendMetricDict == MetricSend("dict")
SendMetricStr == MetricSend("str")
SendMetricKwargs == MetricSend("kwargs")

\* ===================================================== ClickHouse send_log
\* the value None passed as a message
NoneMessage == "<None>"

\* json.loads(message) succeeds: not on the empty string, not on plain text,
\* not on None (TypeError)
IsJson(message) == message \in {"{}", "[1]"}

\* str.upper() on the levels that occur
UpperLevel(l) ==
    CASE l = "info" -> "INFO"
      [] l = "error" -> "ERROR"
      [] l = "bogus" -> "BOGUS"
      [] OTHER -> l

\* severity_map.get(level_upper, (9, 9))[0]
SeverityNumber(l) ==
    CASE l = "TRACE" -> 1
      [] l = "DEBUG" -> 5
      [] l = "INFO" -> 9
      [] l = "WARN" -> 13
      [] l = "ERROR" -> 17
      [] l = "FATAL" -> 21
      [] OTHER -> 9

\* The locals of send_log after its if/elif/else over the payload: the dict
\* and keyword conventions default the message to "", a str payload is the
\* message
LogArgs(conv, m) ==
    [message |-> IF conv = "str" THEN m.message ELSE OrDefault(m.message, ""),
     level |-> OrDefault(m.level, "INFO"),
     attributes |-> m.attributes,
     timestamp |-> m.timestamp,
     trace_id |-> OrDefault(m.trace_id, ""),
     span_id |-> OrDefault(m.span_id, "")]

\* str() of an attribute value: a string is itself, the int 7 is "7"
PyStr(v) == IF v = "<int 7>" THEN "7" ELSE v

\* `if not trace_id and "trace_id" in attributes: trace_id =
\* str(attributes.get("trace_id", ""))`, and the same for span_id
CorrelatedAttributesFirst(id, attributes, key) ==
    IF \E item \in attributes : item[1] = key
    THEN PyStr(DictGet(attributes, key, ""))
    ELSE id
Correlated(id, attributes, key) ==
    IF id = "" /\ \E item \in attributes : item[1] = key
    THEN PyStr(DictGet(attributes, key, ""))
    ELSE id

\* the row send_log builds; ts is the timestamp after its default
LogRow(a, ts, local_off, id) ==
    [log_id |-> id,
     trace_id |-> Correlated(a.trace_id, a.attributes, "trace_id"),
     span_id |-> Correlated(a.span_id, a.attributes, "span_id"),
     timestamp |-> Strftime(ts),
     timestamp_ns |-> TimestampNs(ts, local_off),
     severity_text |-> UpperLevel(a.level),
     severity_number |-> SeverityNumber(UpperLevel(a.level)),
     body |-> a.message,
     body_type |-> IF IsJson(a.message) THEN "JSON" ELSE "STRING",
     attributes |-> a.attributes,
     user_id |-> DictGet(a.attributes, "user.id", "")]

\* send_log from its payload to the finished row: no check of the message
LogBuildRequiringMessage(a, now, local_off, id) ==
    IF a.message = "" THEN Rejected
    ELSE Accepted(LogRow(a,
                         IF a.timestamp = NoDatetime THEN NowUtc(now)
                                                     ELSE a.timestamp,
                         local_off, id))
LogBuild(a, now, local_off, id) ==
    Accepted(LogRow(a,
                    IF a.timestamp = NoDatetime THEN NowUtc(now)
                                                ELSE a.timestamp,
                    local_off, id))

\* what callers supply in the scenario of one log sent in each convention
LogInputs ==
    [message : {NoArg, NoneMessage, "", "hello", "{}"},
     level : {NoArg, "error", "bogus"},
     attributes : {{}, {<<"user.id", "u1">>},
                   {<<"trace_id", "A1">>, <<"span_id", "<int 7>">>}},
     timestamp : {NoDatetime, Datetime(1, 0, TRUE, 0)},
     trace_id : {NoArg, "T1"},
     span_id : {"", "S1"}]

\* send_log in one convention, for the log under study; a str payload is a
\* string
LogSend(conv) ==
    /\ backend = "clickhouse"
    /\ probe.fn = "log"
    /\ ~probe.res[conv].done
    /\ conv = "str" => probe.in.message \notin {NoArg, NoneMessage}
    /\ probe' = [probe EXCEPT !.res[conv] =
                    LogBuild(LogArgs(conv, probe.in), calls,
                             probe.local_off, calls + 1)]
    /\ ChSend("log",
              IF LogBuild(LogArgs(conv, probe.in), calls,
                          probe.local_off, calls + 1).ret
              THEN "ok" ELSE "malformed",
              Servers)

SendLogDict == LogSend("dict")
SendLogStr == LogSend("str")
SendLogKwargs == LogSend("kwargs")

\* ============================================= ClickHouse span transformation
\* the "status" of an OTLP span: the key may be missing, and so may the code
\* and the message of the dict under it
SpanStatuses ==
    [present : {TRUE}, code : {Absent, PyInt(0), PyInt(1), PyInt(2)},
     message : {NoArg, "", "boom"}]
       \cup {[present |-> FALSE, code |-> Absent, message |-> NoArg]}

\* the spans handed to the transformation, and time.time_ns() at the call
SpanInputs ==
    [fn : {"span"},
     status : SpanStatuses,
     name : {NoArg, "op"},
     startTimeUnixNano : {Absent, PyInt(0), PyInt(NsPerSecond)},
     endTimeUnixNano : {Absent, PyInt(NsPerSecond), PyInt(NsPerSecond + 1500000)},
     now_ns : {2 * NsPerSecond}]

\* otlp_span.get(key, default) on a number
NumGet(x, default) == IF x = Absent THEN default ELSE x.v

\* status_code = "OK" if status.get("code") == 1 else status.get("message", "OK")
StatusCode(status) ==
    IF status.code = PyInt(1) THEN "OK" ELSE OrDefault(status.message, "OK")

\* duration_ms = int((end_ns - start_ns) / 1_000_000) if end_ns > start_ns else 0
DurationMs(start_ns, end_ns) ==
    IF end_ns > start_ns THEN (end_ns - start_ns) \div 1000000 ELSE 0

\* transform_otlp_to_clickhouse: the columns computed from the span's times,
\* name and status
TransformOtlpToClickhouse(span) ==
    [timestamp |-> FormatUtc(NumGet(span.startTimeUnixNano, span.now_ns)),
     timestamp_ns |-> NumGet(span.startTimeUnixNano, span.now_ns),
     duration_ms |-> DurationMs(NumGet(span.startTimeUnixNano, 0),
                                NumGet(span.endTimeUnixNano,
                                       NumGet(span.startTimeUnixNano, 0))),
     span_name |-> OrDefault(span.name, "unknown"),
     status_code |-> StatusCode(span.status),
     status_message |-> OrDefault(span.status.message, "")]

\* a direct call of transform_otlp_to_clickhouse on the span under study
TransformSpan ==
    /\ probe.fn = "span"
    /\ probe' = [fn |-> "transformed", span |-> probe,
                 row |-> TransformOtlpToClickhouse(probe)]

\* send_trace of the span under study: add_to_batch transforms it and appends
\* the row
SendTraceSpan ==
    /\ backend = "clickhouse"
    /\ probe.fn = "span"
    /\ probe' = [fn |-> "sent", span |-> probe,
                 row |-> TransformOtlpToClickhouse(probe)]
    /\ ChSend("trace", "ok", {Always200})

\* ====================================================== initial enabled state
\* what the enabled state is resolved from: the explicit `enabled` of the
\* configuration, AUTOMAGIK_TELEMETRY_ENABLED, the opt-out marker, a CI
\* variable, a development ENVIRONMENT value
ResolveInputs ==
    [fn : {"input"}, explicit : ExplicitValues, env : EnvValues,
     optOut : BOOLEAN, ci : BOOLEAN, dev : BOOLEAN]

\* the outcome of a resolution from the inputs i
Resolved(fn, i, e) ==
    [fn |-> fn, explicit |-> i.explicit, env |-> i.env, optOut |-> i.optOut,
     ci |-> i.ci, dev |-> i.dev, enabled |-> e]

\* TelemetryClient.__init__: self.enabled = self._is_telemetry_enabled()
ResolveClient ==
    /\ probe.fn = "input"
    /\ probe' = Resolved("client", probe,
                         IsTelemetryEnabled(probe.env, probe.optOut, probe.ci,
                                            probe.dev))

\* merge_config(user_config).enabled
ResolveConfig ==
    /\ probe.fn = "input"
    /\ probe' = Resolved("config", probe, MergeEnabled(probe.explicit, probe.env))

\* ============================================================== compression
\* A byte string, as far as compression looks at it: its length and how well
\* it deflates.  JSON text is either repetitive or dense.
Lengths == {2, 63, 64, 200, 1023, 1024, 1025}
Bytes == [len : Lengths, kind : {"repetitive", "dense"}, enc : {"raw"}]

BLen(b) == b.len

\* gzip.compress: a header and trailer around the deflated data; the output
\* is longer than a short or dense input
Gzip(b) ==
    [len |-> 20 + (IF b.kind = "repetitive" THEN b.len \div 64
                                            ELSE (b.len * 7) \div 8),
     kind |-> "dense", enc |-> "gzip", of |-> b]

\* gzip.decompress
Gunzip(z) == z.of

\* OTLPBackend._compress_payload
CompressPayload(cfg, payload) ==
    IF cfg.compression_enabled /\ BLen(payload) >= cfg.compression_threshold
    THEN Gzip(payload)
    ELSE payload

\* the body and headers of a request of _send_with_retry, given the body
\* _compress_payload returned: `compressed = len(payload_bytes) < original_size`
OtlpHeaders(payload, body) ==
    [body |-> body,
     content_type |-> "application/json",
     content_encoding |-> IF BLen(body) < BLen(payload) THEN "gzip" ELSE "none"]

OtlpRequest(cfg, payload) ==
    OtlpHeaders(payload, CompressPayload(cfg, payload))

\* the size above which _insert_batch compresses
ChCompressionThreshold == 1024

\* the body and headers of a request of _insert_batch
ChRequest(cfg, data) ==
    IF cfg.compression_enabled /\ BLen(data) > ChCompressionThreshold
    THEN [body |-> Gzip(data), content_type |-> "application/x-ndjson",
          content_encoding |-> "gzip"]
    ELSE [body |-> data, content_type |-> "application/x-ndjson",
          content_encoding |-> "none"]

\* compression settings of a backend; ClickHouseBackend has no threshold
\* setting and ignores the field
CompressionConfigs ==
    [compression_enabled : BOOLEAN, compression_threshold : {1, 64, 1024}]

\* a backend and a serialized payload about to be sent
CompressInputs == [fn : {"input"}, cfg : CompressionConfigs, data : Bytes]

\* OTLPBackend._send_with_retry builds its request
OtlpPrepare ==
    /\ probe.fn = "input"
    /\ probe' = [fn |-> "otlp", cfg |-> probe.cfg, data |-> probe.data,
                 req |-> OtlpRequest(probe.cfg, probe.data)]

\* ClickHouseBackend._insert_batch builds its request
ChPrepare ==
    /\ probe.fn = "input"
    /\ probe' = [fn |-> "clickhouse", cfg |-> probe.cfg, data |-> probe.data,
                 req |-> ChRequest(probe.cfg, probe.data)]

\* ================================================================== backoff
\* values of retry_backoff_base, in tenths of a second
BackoffBases == {1, 5, 10}

\* backoff_time = self.retry_backoff_base * (2**attempt): the loops record the
\* factor 2**attempt of each sleep, the delay is its product with the base
BackoffTimeConstant(base, factor) == base
BackoffTime(base, factor) == base * factor

\* the arguments of time.sleep during one delivery
Delays(base, sleeps) == [i \in 1..Len(sleeps) |-> BackoffTime(base, sleeps[i])]

\* a backend configuration and the server a delivery meets
BackoffInputs ==
    [fn : {"deliver"}, base : BackoffBases, n : 0..MaxBackoffRetries,
     srv : Servers]

\* one delivery by a backend: the outcomes of its attempts, the delays
\* slept, its result
Delivery(backend_name, in, r) ==
    [fn |-> backend_name, base |-> in.base, n |-> in.n, srv |-> in.srv,
     outcomes |-> r.outcomes, delays |-> Delays(in.base, r.sleeps),
     ret |-> r.ret]

\* OTLPBackend._send_with_retry of a serializable payload
OtlpDeliver ==
    /\ probe.fn = "deliver"
    /\ probe' = Delivery("otlp", probe, SendWithRetry(probe.n, TRUE, probe.srv))

\* ClickHouseBackend._insert_batch of one serializable row
ChDeliver ==
    /\ probe.fn = "deliver"
    /\ probe' = Delivery("clickhouse", probe,
                         InsertBatch(probe.n, <<Row(1, "trace", "ok")>>,
                                     "traces", probe.srv, 1))

\* ============================================================ specifications
ChFresh ==
    /\ trace_batch = <<>>
    /\ metric_batch = <<>>
    /\ log_batch = <<>>
    /\ calls = 0
    /\ insertCount = <<>>
    /\ chLast = ChIdle
    /\ threads = NoThreads

\* no function is under study
ProbeIdle == [fn |-> "none"]

ClientUnused ==
    /\ enabled = FALSE
    /\ identity = [user_id |-> "generated", session_id |-> "uuid4"]
    /\ marker = FALSE
    /\ clientReqs = 0
    /\ clientCalls = 0
    /\ clientLast = ClientIdle
    /\ auto = AutoIdle

BackendUnused ==
    /\ backend = "none"
    /\ otlpCfg = [max_retries |-> 0]
    /\ otlpCalls = 0
    /\ otlpLast = OtlpIdle
    /\ chCfg = [batch_size |-> 1, max_retries |-> 0]
    /\ ChFresh

\* a backend constructed with some configuration
InitBackend ==
    /\ backend \in {"otlp", "clickhouse"}
    /\ IF backend = "otlp"
       THEN /\ InitOtlp
            /\ chCfg = [batch_size |-> 1, max_retries |-> 0]
       ELSE /\ otlpCfg = [max_retries |-> 0]
            /\ otlpCalls = 0
            /\ otlpLast = OtlpIdle
            /\ chCfg \in [batch_size : 1..MaxBatch, max_retries : 0..MaxRetries]
    /\ ChFresh

InitClickHouse ==
    /\ backend = "clickhouse"
    /\ otlpCfg = [max_retries |-> 0]
    /\ otlpCalls = 0
    /\ otlpLast = OtlpIdle
    /\ chCfg \in [batch_size : 1..MaxBatch, max_retries : 0..MaxRetries]
    /\ ChFresh

NextClient ==
    \/ TrackEvent /\ UNCHANGED <<backend, otlpVars, chVars, probe, auto>>
    \/ TrackError /\ UNCHANGED <<backend, otlpVars, chVars, probe, auto>>
    \/ TrackMetric /\ UNCHANGED <<backend, otlpVars, chVars, probe, auto>>
    \/ Enable /\ UNCHANGED <<backend, otlpVars, chVars, probe, auto>>
    \/ Disable /\ UNCHANGED <<backend, otlpVars, chVars, probe, auto>>
    \/ IsEnabled /\ UNCHANGED <<backend, otlpVars, chVars, probe, auto>>
    \/ GetStatus /\ UNCHANGED <<backend, otlpVars, chVars, probe, auto>>

NextBackend ==
    \/ OtlpSendTrace /\ UNCHANGED <<backend, clientVars, chVars, probe>>
    \/ OtlpSendMetric /\ UNCHANGED <<backend, clientVars, chVars, probe>>
    \/ OtlpSendLog /\ UNCHANGED <<backend, clientVars, chVars, probe>>
    \/ OtlpFlush /\ UNCHANGED <<backend, clientVars, chVars, probe>>
    \/ SendTrace /\ UNCHANGED <<backend, clientVars, otlpVars, probe, threads>>
    \/ SendMetric /\ UNCHANGED <<backend, clientVars, otlpVars, probe, threads>>
    \/ SendLog /\ UNCHANGED <<backend, clientVars, otlpVars, probe, threads>>
    \/ Flush /\ UNCHANGED <<backend, clientVars, otlpVars, probe, threads>>

NextTraceOnly == SendTraceOk /\ UNCHANGED <<backend, clientVars, otlpVars, probe, threads>>

\* a legacy client and no backend
InitLegacy ==
    /\ probe = ProbeIdle
    /\ InitClient
    /\ BackendUnused

\* a backend of either kind, the legacy client left alone
InitBackendOnly ==
    /\ probe = ProbeIdle
    /\ ClientUnused
    /\ InitBackend

\* a ClickHouse backend, the legacy client left alone
InitTraceOnly ==
    /\ probe = ProbeIdle
    /\ ClientUnused
    /\ InitClickHouse

NextFlush ==
    \/ OtlpSendTrace /\ UNCHANGED <<backend, clientVars, chVars, probe>>
    \/ OtlpFlush /\ UNCHANGED <<backend, clientVars, chVars, probe>>
    \/ QuietSend /\ UNCHANGED <<backend, clientVars, otlpVars, probe, threads>>
    \/ AnyFlush /\ UNCHANGED <<backend, clientVars, otlpVars, probe, threads>>

\* the legacy client on its own
SpecClient == InitLegacy /\ [][NextClient]_vars

\* one backend instance, OTLP or ClickHouse
Spec == InitBackendOnly /\ [][NextBackend]_vars

\* a fresh ClickHouse backend that only receives send_trace, server at 200
SpecTraceOnly == InitTraceOnly /\ [][NextTraceOnly]_vars

InitCompress ==
    /\ probe \in CompressInputs
    /\ ClientUnused
    /\ BackendUnused

NextCompress ==
    \/ OtlpPrepare /\ UNCHANGED <<backend, clientVars, otlpVars, chVars>>
    \/ ChPrepare /\ UNCHANGED <<backend, clientVars, otlpVars, chVars>>

\* the request a backend builds for a serialized payload
SpecCompress == InitCompress /\ [][NextCompress]_vars

\* a ClickHouse backend, a metric and the time zone of the machine
InitMetric ==
    /\ probe \in [fn : {"metric"}, in : MetricInputs, local_off : {0, 1},
                   res : {[c \in Conventions |-> NotCalled]}]
    /\ ClientUnused
    /\ backend = "clickhouse"
    /\ otlpCfg = [max_retries |-> 0]
    /\ otlpCalls = 0
    /\ otlpLast = OtlpIdle
    /\ chCfg \in [batch_size : 1..MaxBatch, max_retries : {1}]
    /\ ChFresh

NextMetric ==
    \/ SendMetricDict /\ UNCHANGED <<backend, clientVars, otlpVars, threads>>
    \/ SendMetricStr /\ UNCHANGED <<backend, clientVars, otlpVars, threads>>
    \/ SendMetricKwargs /\ UNCHANGED <<backend, clientVars, otlpVars, threads>>

\* one metric sent to a ClickHouse backend in each calling convention
SpecMetric == InitMetric /\ [][NextMetric]_vars

InitResolve ==
    /\ probe \in ResolveInputs
    /\ ClientUnused
    /\ BackendUnused

NextResolve ==
    \/ ResolveClient /\ UNCHANGED <<backend, clientVars, otlpVars, chVars>>
    \/ ResolveConfig /\ UNCHANGED <<backend, clientVars, otlpVars, chVars>>

\* the enabled state a construction resolves
SpecResolve == InitResolve /\ [][NextResolve]_vars

\* one backend instance that is flushed repeatedly
SpecFlush == InitBackendOnly /\ [][NextFlush]_vars

NextPayload ==
    \/ TrackEventWith /\ UNCHANGED <<backend, otlpVars, chVars, auto>>
    \/ TrackErrorWith /\ UNCHANGED <<backend, otlpVars, chVars, auto>>
    \/ TrackMetricWith /\ UNCHANGED <<backend, otlpVars, chVars, auto>>

\* the legacy client, with the requests its calls build
SpecPayload == InitLegacy /\ [][NextPayload]_vars

InitBackoff ==
    /\ probe \in BackoffInputs
    /\ ClientUnused
    /\ BackendUnused

NextBackoff ==
    \/ OtlpDeliver /\ UNCHANGED <<backend, clientVars, otlpVars, chVars>>
    \/ ChDeliver /\ UNCHANGED <<backend, clientVars, otlpVars, chVars>>

\* one delivery of a backend with some retry configuration
SpecBackoff == InitBackoff /\ [][NextBackoff]_vars

\* a batching client constructed with some configuration
InitAuto ==
    /\ probe = ProbeIdle
    /\ enabled \in BOOLEAN
    /\ identity = [user_id |-> "generated", session_id |-> "uuid4"]
    /\ marker = FALSE
    /\ clientReqs = 0
    /\ clientCalls = 0
    /\ clientLast = ClientIdle
    /\ auto \in {Constructed(cfg) : cfg \in AutoCfgs}
    /\ BackendUnused

NextTimer ==
    \/ AutoTrackEvent /\ UNCHANGED <<backend, otlpVars, chVars, probe>>
    \/ AutoFlush /\ UNCHANGED <<backend, otlpVars, chVars, probe>>
    \/ TimerFire /\ UNCHANGED <<backend, otlpVars, chVars, probe>>
    \/ ScheduleFlush /\ UNCHANGED <<backend, otlpVars, chVars, probe>>
    \/ CancelTimer /\ UNCHANGED <<backend, otlpVars, chVars, probe>>
    \/ Shutdown /\ UNCHANGED <<backend, otlpVars, chVars, probe>>
    \/ Tick /\ UNCHANGED <<backend, otlpVars, chVars, probe>>

\* the batching client with every operation on its timer
SpecTimer == InitAuto /\ [][NextTimer]_vars

NextAutoFlush ==
    \/ AutoTrackEvent /\ UNCHANGED <<backend, otlpVars, chVars, probe>>
    \/ TimerFire /\ UNCHANGED <<backend, otlpVars, chVars, probe>>
    \/ Shutdown /\ UNCHANGED <<backend, otlpVars, chVars, probe>>
    \/ Tick /\ UNCHANGED <<backend, otlpVars, chVars, probe>>

\* the batching client used through track_event and shutdown only, no
\* explicit flush(): time passes and a timer that is due fires
SpecAutoFlush ==
    /\ InitAuto
    /\ [][NextAutoFlush]_vars
    /\ WF_vars(Tick /\ UNCHANGED <<backend, otlpVars, chVars, probe>>)
    /\ WF_vars(TimerFire /\ UNCHANGED <<backend, otlpVars, chVars, probe>>)

\* a ClickHouse backend and a log
InitLog ==
    /\ probe \in [fn : {"log"}, in : LogInputs, local_off : {0},
                   res : {[c \in Conventions |-> NotCalled]}]
    /\ ClientUnused
    /\ backend = "clickhouse"
    /\ otlpCfg = [max_retries |-> 0]
    /\ otlpCalls = 0
    /\ otlpLast = OtlpIdle
    /\ chCfg \in [batch_size : 1..MaxBatch, max_retries : {1}]
    /\ ChFresh

NextLog ==
    \/ SendLogDict /\ UNCHANGED <<backend, clientVars, otlpVars, threads>>
    \/ SendLogStr /\ UNCHANGED <<backend, clientVars, otlpVars, threads>>
    \/ SendLogKwargs /\ UNCHANGED <<backend, clientVars, otlpVars, threads>>

\* one log sent to a ClickHouse backend in each calling convention
SpecLog == InitLog /\ [][NextLog]_vars

NextThreads ==
    \/ \E t \in Threads : ThreadSendTrace(t) /\ UNCHANGED <<backend, clientVars, otlpVars, probe>>
    \/ \E t \in Threads : ThreadFlush(t) /\ UNCHANGED <<backend, clientVars, otlpVars, probe>>
    \/ \E t \in Threads : ThreadSerialize(t) /\ UNCHANGED <<backend, clientVars, otlpVars, probe>>
    \/ \E t \in Threads : ThreadPost(t) /\ UNCHANGED <<backend, clientVars, otlpVars, probe>>
    \/ \E t \in Threads : ThreadClear(t) /\ UNCHANGED <<backend, clientVars, otlpVars, probe>>

\* one ClickHouse backend called from several threads
SpecThreads == InitTraceOnly /\ [][NextThreads]_vars

\* a ClickHouse backend and a span
InitTransform ==
    /\ probe \in SpanInputs
    /\ ClientUnused
    /\ backend = "clickhouse"
    /\ otlpCfg = [max_retries |-> 0]
    /\ otlpCalls = 0
    /\ otlpLast = OtlpIdle
    /\ chCfg \in [batch_size : 1..MaxBatch, max_retries : {1}]
    /\ ChFresh

NextTransform ==
    \/ TransformSpan /\ UNCHANGED <<backend, clientVars, otlpVars, chVars>>
    \/ SendTraceSpan /\ UNCHANGED <<backend, clientVars, otlpVars, threads>>

\* one span transformed into a row of the traces table
SpecTransform == InitTransform /\ [][NextTransform]_vars

\* a legacy client and a backend of either kind in one process
InitFrame ==
    /\ probe = ProbeIdle
    /\ InitClient
    /\ InitBackend

\* calls are left to the client and the backend together
FrameBudget == clientCalls + otlpCalls + calls < MaxFrameCalls

NextFrame ==
    \/ FrameBudget /\ Enable /\ UNCHANGED <<backend, otlpVars, chVars, probe, auto>>
    \/ FrameBudget /\ Disable /\ UNCHANGED <<backend, otlpVars, chVars, probe, auto>>
    \/ FrameBudget /\ OtlpSendTrace /\ UNCHANGED <<backend, clientVars, chVars, probe>>
    \/ FrameBudget /\ OtlpSendMetric /\ UNCHANGED <<backend, clientVars, chVars, probe>>
    \/ FrameBudget /\ OtlpSendLog /\ UNCHANGED <<backend, clientVars, chVars, probe>>
    \/ FrameBudget /\ OtlpFlush /\ UNCHANGED <<backend, clientVars, chVars, probe>>
    \/ FrameBudget /\ SendTrace /\ UNCHANGED <<backend, clientVars, otlpVars, probe, threads>>
    \/ FrameBudget /\ SendMetric /\ UNCHANGED <<backend, clientVars, otlpVars, probe, threads>>
    \/ FrameBudget /\ SendLog /\ UNCHANGED <<backend, clientVars, otlpVars, probe, threads>>
    \/ FrameBudget /\ Flush /\ UNCHANGED <<backend, clientVars, otlpVars, probe, threads>>

\* enable() and disable() on the client between the calls on a backend
SpecFrame == InitFrame /\ [][NextFrame]_vars

\* ==================================================================== claims
SendOps == {"send_trace", "send_metric", "send_log"}

\* an outcome the claims call HTTP 5xx, a network/timeout error, HTTP 4xx
Is5xx(o) == o.kind \in {"resp", "exc"} /\ o.status >= 500
IsNetworkError(o) == o.kind = "exc" /\ o.cls \in {"URLError", "TimeoutError"}
Is4xx(o) == o.kind \in {"resp", "exc"} /\ o.status >= 400 /\ o.status < 500
PersistentFailure(outcomes) ==
    \A i \in 1..Len(outcomes) : Is5xx(outcomes[i]) \/ IsNetworkError(outcomes[i])

LastInserts == {chLast.inserts[i] : i \in 1..Len(chLast.inserts)}
RowsOf(batch) == {batch[i] : i \in 1..Len(batch)}
PendingRows == RowsOf(trace_batch) \cup RowsOf(metric_batch) \cup RowsOf(log_batch)

\* C1: no track_event, track_error or track_metric call lets an exception
\* reach the caller, whatever the HTTP attempt gave (URLError, timeout,
\* HTTP 4xx/5xx error, non-200 response, unexpected exception).
C1_TrackNeverRaises ==
    clientLast.op \in TrackOps => ~clientLast.raised

\* C1 witness: a track_event whose transport raised an unexpected exception
\* returned normally.
C1_Witness ==
    /\ clientLast.op = "track_event"
    /\ clientLast.sent
    /\ clientLast.outcome = Raise("Exception", 0)
    /\ ~clientLast.raised

\* C2: a track_* call made while enabled is false issues no HTTP request and
\* changes no client state, and a request is only ever issued by a track_*
\* call made while enabled is true.
C2_DisabledIsNoOp ==
    [][ /\ (~enabled /\ clientCalls' # clientCalls /\ clientLast'.op \in TrackOps)
            => /\ clientReqs' = clientReqs
               /\ ~clientLast'.sent
               /\ enabled' = enabled
               /\ marker' = marker
        /\ (clientReqs' # clientReqs)
            => (enabled /\ clientLast'.op \in TrackOps) ]_vars

\* C2 witness: after requests were issued while enabled, a track_metric call
\* made while disabled has sent nothing.
C2_Witness ==
    /\ ~enabled
    /\ clientReqs > 0
    /\ clientLast.op = "track_metric"
    /\ ~clientLast.sent

\* HTTP requests the last ClickHouse call issued
RECURSIVE PostsOf(_)
PostsOf(inserts) ==
    IF inserts = <<>> THEN 0
    ELSE Len(Head(inserts).outcomes) + PostsOf(Tail(inserts))

\* C3: on a fresh ClickHouse backend that only receives send_trace calls
\* (server answering 200), the k-th call issues exactly one POST to the traces
\* table with batch_size rows when k is a multiple of batch_size and no
\* request otherwise, and k mod batch_size rows are pending after it (so
\* floor(k / batch_size) POSTs have been issued after k calls).
C3_AutoFlushAtBatchSize ==
    /\ Len(trace_batch) = calls % chCfg.batch_size
    /\ calls > 0 =>
          IF calls % chCfg.batch_size = 0
          THEN /\ PostsOf(chLast.inserts) = 1
               /\ Len(chLast.inserts) = 1
               /\ chLast.inserts[1].table = "traces"
               /\ Len(chLast.inserts[1].rows) = chCfg.batch_size
          ELSE PostsOf(chLast.inserts) = 0

\* C4: an OTLP send_* with max_retries = N whose every attempt meets HTTP 5xx
\* or a network/timeout error makes exactly N + 1 attempts and returns False.
C4_OtlpAttemptBudget ==
    (/\ otlpLast.op \in SendOps
     /\ otlpLast.serialized
     /\ PersistentFailure(otlpLast.outcomes))
        => /\ Len(otlpLast.outcomes) = otlpCfg.max_retries + 1
           /\ ~otlpLast.ret

\* C4 witness: with max_retries = 2 a send_metric met 503 three times and
\* gave up.
C4_Witness ==
    /\ otlpCfg.max_retries = 2
    /\ otlpLast.op = "send_metric"
    /\ otlpLast.outcomes = <<Resp(503), Resp(503), Resp(503)>>
    /\ ~otlpLast.ret

\* C5: a ClickHouse insert of a non-empty batch with max_retries = N whose
\* every attempt meets HTTP 5xx or a network error makes exactly N + 1
\* attempts and reports failure.
C5_ClickHouseAttemptBudget ==
    \A ins \in LastInserts :
        (~ins.raised /\ PersistentFailure(ins.outcomes))
            => /\ Len(ins.outcomes) = chCfg.max_retries + 1
               /\ ~ins.ret

\* a delivery (its outcomes, sleeps and result) in which every HTTP 4xx
\* outcome is the last attempt, is followed by no sleep and gives False, and
\* which made one attempt only when the 4xx came first
TerminalOn4xx(d) ==
    /\ \A i \in 1..Len(d.outcomes) :
          Is4xx(d.outcomes[i])
              => /\ i = Len(d.outcomes)
                 /\ Len(d.sleeps) = i - 1
                 /\ ~d.ret
    /\ (d.outcomes # <<>> /\ Is4xx(d.outcomes[1]))
          => (Len(d.outcomes) = 1 /\ d.sleeps = <<>>)

TableAt(k) == <<"traces", "metrics", "logs">>[k]

\* C7: flush() attempts an insert for every non-empty batch, also after the
\* insert of an earlier batch failed, and returns True exactly when every
\* insert it attempted succeeded.
C7_FlushAttemptsEveryBatch ==
    chLast.op = "flush"
        => /\ \A k \in 1..3 :
                 chLast.pre[k] > 0
                     => \E ins \in LastInserts : ins.table = TableAt(k)
           /\ ~chLast.raised => (chLast.ret = (\A ins \in LastInserts : ins.ret))

\* C8: after flush() returns all three batches are empty, whatever the
\* inserts gave; rows of a failed flush are not re-queued, and no row is part
\* of more than one insert operation.
C8_FlushClearsAtMostOnce ==
    /\ (chLast.op = "flush" /\ ~chLast.raised)
          => (trace_batch = <<>> /\ metric_batch = <<>> /\ log_batch = <<>>)
    /\ \A ins \in LastInserts : RowsOf(ins.rows) \cap PendingRows = {}
    /\ \A id \in DOMAIN insertCount : insertCount[id] <= 1

\* C8 witness: a flush() of two pending batches whose first insert used up
\* its retries and failed has returned False with every batch empty.
C8_Witness ==
    /\ chLast.op = "flush"
    /\ ~chLast.raised
    /\ ~chLast.ret
    /\ Len(chLast.inserts) = 2
    /\ Len(chLast.inserts[1].outcomes) >= 2
    /\ ~chLast.inserts[1].ret
    /\ PendingRows = {}
    /\ \E id \in DOMAIN insertCount : insertCount[id] = 1

\* C9: send_trace, send_metric, send_log and flush of the ClickHouse backend
\* never let an exception reach the caller; a network or serialization error
\* becomes a False return.
C9_ClickHouseNeverRaises ==
    /\ ~chLast.raised
    /\ (chLast.flushRaised \/ \E ins \in LastInserts : ins.raised) => ~chLast.ret

\* C10: a send_* call that returns True has delivered its payload or left it
\* queued, and one whose delivery failed returns False: an OTLP send returns
\* True only after a 200, a ClickHouse send that triggered an auto-flush
\* returns False when an insert of that flush failed.
C10_SendResultReflectsDelivery ==
    /\ (otlpLast.op \in SendOps /\ otlpLast.ret)
          => (/\ otlpLast.outcomes # <<>>
              /\ otlpLast.outcomes[Len(otlpLast.outcomes)] = Resp(200))
    /\ (otlpLast.op \in SendOps /\ ~otlpLast.ret)
          => (otlpLast.outcomes = <<>>
              \/ otlpLast.outcomes[Len(otlpLast.outcomes)] # Resp(200))
    /\ (chLast.op \in SendOps /\ chLast.flushed)
          => (chLast.ret = (\A ins \in LastInserts : ins.ret))

\* C11: flush() is idempotent on both backends: with nothing pending it
\* returns True and issues no HTTP request, and of two consecutive flush()
\* calls the second returns True and issues no HTTP request, whatever the
\* first one gave.
C11_FlushIdempotent ==
    [][ /\ (otlpCalls' # otlpCalls /\ otlpLast'.op = "flush")
            => (otlpLast'.ret /\ otlpLast'.outcomes = <<>>)
        /\ (calls' # calls /\ chLast'.op = "flush" /\ ~Pending)
            => (/\ chLast'.ret
                /\ ~chLast'.raised
                /\ PostsOf(chLast'.inserts) = 0)
        /\ (calls' # calls /\ chLast.op = "flush" /\ chLast'.op = "flush")
            => (/\ chLast'.ret
                /\ ~chLast'.raised
                /\ PostsOf(chLast'.inserts) = 0) ]_vars

\* C12: OTLPBackend with compression enabled sends every payload of length
\* >= compression_threshold gzip-compressed with Content-Encoding: gzip, the
\* body decompressing to the original bytes; a payload below the threshold,
\* and any payload when compression is disabled, goes out as the original
\* bytes without that header.
C12_OtlpCompression ==
    probe.fn = "otlp"
        => IF /\ probe.cfg.compression_enabled
              /\ BLen(probe.data) >= probe.cfg.compression_threshold
           THEN /\ probe.req.content_encoding = "gzip"
                /\ probe.req.body.enc = "gzip"
                /\ Gunzip(probe.req.body) = probe.data
           ELSE /\ probe.req.content_encoding = "none"
                /\ probe.req.body = probe.data

\* C13: ClickHouseBackend._insert_batch with compression enabled sends a body
\* of 1024 bytes or more gzip-compressed with Content-Encoding: gzip and a
\* shorter body uncompressed without that header; with compression disabled
\* no body is compressed.
C13_ClickHouseCompression ==
    probe.fn = "clickhouse"
        => IF /\ probe.cfg.compression_enabled
              /\ BLen(probe.data) >= ChCompressionThreshold
           THEN /\ probe.req.content_encoding = "gzip"
                /\ probe.req.body.enc = "gzip"
                /\ Gunzip(probe.req.body) = probe.data
           ELSE /\ probe.req.content_encoding = "none"
                /\ probe.req.body = probe.data

\* the calls C14 says are rejected: in the dict convention a payload without
\* the 'metric_name' or the 'value' key, in the other two an empty or missing
\* name or a value that is None or missing
MissingNameOrValue(conv, m) ==
    IF conv = "dict"
    THEN m.name = NoArg \/ m.value = Absent
    ELSE m.name \in {NoArg, ""} \/ m.value \in {Absent, None}

\* C14: a send_metric call whose metric name or value is absent, in any of
\* the three calling conventions, returns False without raising, appends no
\* row, issues no HTTP request and leaves the metric batch as it was.
C14_MetricValidation ==
    [][ \A c \in Conventions :
          (/\ probe.fn = "metric"
           /\ ~probe.res[c].done
           /\ probe'.res[c].done
           /\ MissingNameOrValue(c, probe.in))
              => /\ ~probe'.res[c].ret
                 /\ probe'.res[c].rows = <<>>
                 /\ ~chLast'.ret
                 /\ ~chLast'.raised
                 /\ metric_batch' = metric_batch
                 /\ PostsOf(chLast'.inserts) = 0 ]_vars

\* a row without its generated id, and without its timestamps when the
\* caller supplied none
Comparable(row, m) ==
    IF m.timestamp = NoDatetime
    THEN [row EXCEPT !.metric_id = 0, !.timestamp = TimeString(0),
                     !.timestamp_ns = 0]
    ELSE [row EXCEPT !.metric_id = 0]

\* two send_metric calls gave the same result and rows equal in every field
\* but the generated ones
SameOutcome(r1, r2, m) ==
    /\ r1.ret = r2.ret
    /\ Len(r1.rows) = Len(r2.rows)
    /\ \A i \in 1..Len(r1.rows) :
          Comparable(r1.rows[i], m) = Comparable(r2.rows[i], m)

\* C15: for every metric (a name, a value, and a type, unit, attributes,
\* resource attributes and timestamp that may be left out), send_metric with
\* a dict payload and send_metric with the same fields as keyword arguments,
\* or with the name as a string payload, return the same result and append
\* rows equal in every field except the generated metric_id (and the
\* timestamps when none is supplied).
C15_ConventionsAgree ==
    (/\ probe.fn = "metric"
     /\ probe.in.name # NoArg
     /\ probe.in.value # Absent)
        => \A c \in {"str", "kwargs"} :
              (probe.res["dict"].done /\ probe.res[c].done)
                  => SameOutcome(probe.res["dict"], probe.res[c], probe.in)

\* C15 witness: a counter with a unit, attributes and a timestamp has been
\* sent as a dict and as keyword arguments, and both calls appended a row.
C15_Witness ==
    /\ probe.fn = "metric"
    /\ probe.in.metric_type = "counter"
    /\ probe.in.unit = "ms"
    /\ probe.in.value = PyInt(2)
    /\ probe.in.timestamp # NoDatetime
    /\ probe.res["dict"].ret
    /\ probe.res["kwargs"].ret
    /\ probe.res["dict"].rows[1].metric_type = "SUM"
    /\ probe.res["dict"].rows[1].metric_id # probe.res["kwargs"].rows[1].metric_id

\* C16: in every row the ClickHouse backend appends, the timestamp string
\* and timestamp_ns denote the same instant: timestamp_ns / 1e9 formatted in
\* UTC to the second equals the timestamp string, for naive datetimes and for
\* aware datetimes with a non-zero UTC offset as well.
C16_TimestampsAgree ==
    probe.fn = "metric"
        => \A c \in Conventions :
              \A i \in 1..Len(probe.res[c].rows) :
                  probe.res[c].rows[i].timestamp
                      = FormatUtc(probe.res[c].rows[i].timestamp_ns)

\* the step just taken is a call of the client operation op
ClientStep(op) == clientCalls' # clientCalls /\ clientLast'.op = op

Truthy == {"true", "1", "yes", "on"}

\* the enabled state in the priority order of C18
ByPriority(explicit, env, optOut, ci, dev) ==
    IF explicit # "None" THEN explicit = "True"
    ELSE IF env # "unset" THEN Lower(env) \in Truthy
    ELSE IF optOut THEN FALSE
    ELSE IF ci THEN FALSE
    ELSE IF dev THEN FALSE
    ELSE FALSE

\* C18: the enabled state is resolved in the priority order explicit config
\* value, AUTOMAGIK_TELEMETRY_ENABLED, opt-out marker, CI variable,
\* development ENVIRONMENT, default disabled: the client (which takes no
\* explicit value) and merge_config both give the value of that order; an
\* override of true/1/yes/on enables the client whatever the marker and the CI
\* variables, and without explicit value and override the result is disabled.
C18_InitialStatePriority ==
    /\ probe.fn = "client"
          => /\ probe.enabled = ByPriority("None", probe.env, probe.optOut,
                                           probe.ci, probe.dev)
             /\ Lower(probe.env) \in Truthy => probe.enabled
             /\ probe.env = "unset" => ~probe.enabled
    /\ probe.fn = "config"
          => /\ probe.enabled = ByPriority(probe.explicit, probe.env,
                                           probe.optOut, probe.ci, probe.dev)
             /\ (probe.explicit = "None" /\ probe.env = "unset")
                   => ~probe.enabled

\* C18 witness: a client constructed with the override "yes" while the
\* opt-out marker exists and a CI variable is set is enabled.
C18_Witness ==
    /\ probe.fn = "client"
    /\ probe.env = "yes"
    /\ probe.optOut
    /\ probe.ci
    /\ probe.enabled

\* C19: get_status() is a pure read: it changes neither the enabled flag,
\* user_id, session_id nor the opt-out marker, issues no HTTP request, and
\* its "enabled" entry is the current enabled flag, whatever enable() and
\* disable() calls came before.
C19_GetStatusPureRead ==
    [][ ClientStep("get_status")
          => /\ enabled' = enabled
             /\ identity' = identity
             /\ marker' = marker
             /\ clientReqs' = clientReqs
             /\ ~clientLast'.sent
             /\ clientLast'.value = PyBool(enabled) ]_vars

\* C19 witness: get_status() has reported enabled = True while the opt-out
\* marker exists (an enable() could not remove it).
C19_Witness ==
    /\ clientLast.op = "get_status"
    /\ clientLast.value = "True"
    /\ enabled
    /\ marker

\* TelemetryConfig.max_retries as configured by default
ConfiguredMaxRetries == 3

\* HTTP attempts of the last client call
ClientAttempts == IF clientLast.sent THEN 1 ELSE 0

\* C20: with telemetry enabled and max_retries = N, a track_event call whose
\* transport raises HTTP 5xx or a network error makes exactly N + 1 HTTP
\* attempts, one whose transport raises HTTP 4xx makes exactly 1, and the
\* call returns without raising either way.
C20_ClientRetryBudget ==
    (clientLast.op = "track_event" /\ clientLast.sent
     /\ clientLast.outcome.kind = "exc")
        => /\ ~clientLast.raised
           /\ (Is5xx(clientLast.outcome) \/ IsNetworkError(clientLast.outcome))
                 => ClientAttempts = ConfiguredMaxRetries + 1
           /\ Is4xx(clientLast.outcome) => ClientAttempts = 1

\* the number of spans of a request body, over its resourceSpans and
\* scopeSpans entries
RECURSIVE SpanCount(_)
SpanCount(entries) ==
    IF entries = <<>> THEN 0
    ELSE (IF "spans" \in DOMAIN Head(entries)
          THEN Len(Head(entries).spans)
          ELSE SpanCount(Head(entries).scopeSpans))
         + SpanCount(Tail(entries))

\* a string of n hexadecimal digits
IsHex(id, n) == Len(id) = n /\ \A i \in 1..Len(id) : id[i] \in HexDigits

\* a span carries the attribute k = v: under key k, with the content of v, in
\* full when v is no longer than the longest string let through
Carries(span, k, v) ==
    \E at \in span.attributes :
       /\ at.key = k
       /\ at.value.s = v.s
       /\ at.value.len <= v.len
       /\ v.len <= MaxStringLen => at.value.len = v.len

C22_ExponentialBackoff ==
    (probe.fn \in {"otlp", "clickhouse"} /\ probe.outcomes # <<>>)
        => /\ Len(probe.delays) = Len(probe.outcomes) - 1
           /\ \A i \in 1..Len(probe.delays) :
                 /\ probe.delays[i] = probe.base * 2 ^ (i - 1)
                 /\ Is5xx(probe.outcomes[i]) \/ probe.outcomes[i].kind = "exc"
                 /\ ~Is4xx(probe.outcomes[i])

\* C22 witness: an OTLP delivery with base 5 and max_retries = 3 that met 503
\* four times has slept 5, 10 and 20 and nothing after its last attempt.
C22_Witness ==
    /\ probe.fn = "otlp"
    /\ probe.base = 5
    /\ probe.n = 3
    /\ Len(probe.outcomes) = 4
    /\ probe.delays = <<5, 10, 20>>
    /\ ~probe.ret

\* C23: the OTLP backend holds no pending data: a send_trace, send_metric or
\* send_log call transmits at once, every HTTP request of the call going to
\* the endpoint of its own signal (traces, metrics, logs) and a serializable
\* payload giving at least one request, and flush() issues no HTTP request
\* and returns True whatever preceded it.
C23_OtlpSendsImmediately ==
    /\ otlpLast.op = "send_trace" => otlpLast.endpoint = "endpoint"
    /\ otlpLast.op = "send_metric" => otlpLast.endpoint = "metrics_endpoint"
    /\ otlpLast.op = "send_log" => otlpLast.endpoint = "logs_endpoint"
    /\ (otlpLast.op \in SendOps /\ otlpLast.serialized)
          => Len(otlpLast.outcomes) >= 1
    /\ otlpLast.op = "flush"
          => (otlpLast.outcomes = <<>> /\ otlpLast.ret /\ otlpLast.endpoint = "none")

\* C23 witness: the second call on an OTLP backend, a send_log whose three
\* attempts failed, has sent them all to the logs endpoint.
C23_Witness ==
    /\ otlpCalls = 2
    /\ otlpLast.op = "send_log"
    /\ otlpLast.endpoint = "logs_endpoint"
    /\ Len(otlpLast.outcomes) = 3
    /\ ~otlpLast.ret

\* C24: once the shutdown flag is set no auto-flush is scheduled or fires: the
\* flag stays set, no timer is live (a _schedule_flush call creates none), no
\* step is a firing of the timer, and a second shutdown or a second cancel
\* changes nothing.
C24_NoAutoFlushAfterShutdown ==
    [][ /\ auto.shutdown
           => /\ auto'.shutdown
              /\ auto'.timer.state # "live"
              /\ auto'.last # "timer_fire"
              /\ auto'.last = "_schedule_flush" => auto'.timer = auto.timer
              /\ auto'.last = "shutdown"
                    => auto' = [auto EXCEPT !.last = "shutdown"]
        /\ (auto.timer.state \in {"none", "cancelled"} /\ auto'.last = "cancel")
           => auto' = [auto EXCEPT !.last = "cancel"] ]_vars

\* C24 witness: _schedule_flush was called after shutdown with an event still
\* queued, and the timer is the cancelled one.
C24_Witness ==
    /\ auto.shutdown
    /\ auto.last = "_schedule_flush"
    /\ auto.timer.state = "cancelled"
    /\ auto.queue # <<>>

OwnTable(op) ==
    CASE op = "send_trace" -> "traces"
      [] op = "send_metric" -> "metrics"
      [] op = "send_log" -> "logs"

\* the batch a position of chLast.pre stands for
BatchAt(k) == <<trace_batch, metric_batch, log_batch>>[k]

\* C27: the three ClickHouse batches are independent: the auto-flush a send_*
\* call triggers when the batch of its signal reaches batch_size transmits
\* and clears that batch only; the rows pending for the other two signals
\* stay and no POST goes to their tables.
C27_AutoFlushOwnBatchOnly ==
    (chLast.op \in SendOps /\ chLast.flushed)
        => \A k \in 1..3 :
              TableAt(k) # OwnTable(chLast.op)
                  => /\ Len(BatchAt(k)) = chLast.pre[k]
                     /\ \A ins \in LastInserts : ins.table # TableAt(k)

\* C28: in single-threaded use, after every send_trace, send_metric, send_log
\* or flush call has returned each of the three ClickHouse batches holds
\* fewer than batch_size rows, and no insert body contains more than
\* batch_size rows.
C28_BatchesBelowBatchSize ==
    chLast.op \in SendOps \cup {"flush"}
        => /\ \A k \in 1..3 : Len(BatchAt(k)) < chCfg.batch_size
           /\ \A ins \in LastInserts : Len(ins.rows) <= chCfg.batch_size

\* rows in the order of the calls that created them, none twice
InCallOrder(rows) ==
    \A i \in 1..Len(rows) : \A j \in 1..Len(rows) :
        i < j => rows[i].id < rows[j].id

\* batch b extended by at most one row at its end
ExtendedAtEnd(b, c) ==
    /\ Len(c) \in {Len(b), Len(b) + 1}
    /\ \A i \in 1..Len(b) : c[i] = b[i]

\* C29: the rows of every insert body are in the order in which the send_*
\* calls appended them, and no operation reorders, duplicates or removes a
\* pending row: a call leaves each batch as it was, with one row added at its
\* end, or cleared by its flush, and the body a flush inserts for a table is
\* the batch of that table, with the row of the call at its end.
C29_AppendOrderPreserved ==
    [][ \A k \in 1..3 :
          /\ \/ <<trace_batch', metric_batch', log_batch'>>[k] = <<>>
             \/ ExtendedAtEnd(BatchAt(k),
                              <<trace_batch', metric_batch', log_batch'>>[k])
          /\ InCallOrder(<<trace_batch', metric_batch', log_batch'>>[k])
          /\ \A i \in 1..Len(chLast'.inserts) :
                chLast'.inserts[i].table = TableAt(k)
                   => /\ ExtendedAtEnd(BatchAt(k), chLast'.inserts[i].rows)
                      /\ InCallOrder(chLast'.inserts[i].rows) ]_vars

\* C29 witness: an auto-flush has inserted the rows of the first and the
\* third call, in that order, into one table.
C29_Witness ==
    /\ chLast.flushed
    /\ \E ins \in LastInserts :
          /\ Len(ins.rows) = 2
          /\ ins.rows[1].id = 1
          /\ ins.rows[2].id = 3

\* a row that left its batch without being part of any insert body: it is in
\* no batch, in no body a thread still has to send, and was never counted
Dropped(id) ==
    /\ insertCount[id] = 0
    /\ \A i \in 1..Len(trace_batch) : trace_batch[i].id # id
    /\ \A t \in Threads :
          threads[t].pc = "post"
              => \A i \in 1..Len(threads[t].body) : threads[t].body[i].id # id

\* C30: when several threads call send_* and flush concurrently on one
\* ClickHouse backend, every appended row is part of the body of exactly one
\* insert before it is cleared: no row is cleared without having been
\* transmitted, and no row is transmitted by two inserts.
C30_ConcurrentRowsInsertedOnce ==
    \A id \in RowIds : insertCount[id] <= 1 /\ ~Dropped(id)

\* C31: flushing a non-empty ClickHouse batch issues at least one HTTP POST
\* carrying its rows before the rows are dropped, for every max_retries >= 0.
C31_FlushPostsBeforeDrop ==
    \A ins \in LastInserts :
        ins.rows # <<>> => Len(ins.outcomes) >= 1

\* C32: a request of OTLPBackend carries Content-Encoding: gzip exactly when
\* its body is gzip-compressed, for every payload and every
\* compression_threshold, also when the gzip output is not smaller than the
\* original bytes.
C32_OtlpHeaderIffGzip ==
    probe.fn = "otlp"
        => (probe.req.content_encoding = "gzip" <=> probe.req.body.enc = "gzip")

\* an outcome _insert_batch retries: a 5xx response or HTTPError, a network
\* or timeout error, any other unexpected exception
Retryable(o) ==
    \/ Is5xx(o)
    \/ IsNetworkError(o)
    \/ o.kind = "exc" /\ o.cls = "Exception"

C37_BoundedAttempts ==
    /\ Len(otlpLast.outcomes) <= otlpCfg.max_retries + 1
    /\ \A ins \in LastInserts : Len(ins.outcomes) <= chCfg.max_retries + 1
    /\ Len(chLast.inserts) <= 3
    /\ PostsOf(chLast.inserts) <= 3 * (chCfg.max_retries + 1)

\* C37 witness: a flush inserted two batches while the server failed on
\* every attempt; each insert gave up after max_retries >= 2 attempts.
C37_Witness ==
    /\ chLast.flushed
    /\ chCfg.max_retries >= 2
    /\ Len(chLast.inserts) = 2
    /\ \A ins \in LastInserts :
          /\ PersistentFailure(ins.outcomes)
          /\ Len(ins.outcomes) = chCfg.max_retries
          /\ ~ins.ret

\* C38: rows are only ever posted to the table of their own signal type:
\* a POST to the traces table holds only rows appended by send_trace, one to
\* the metrics table only send_metric rows, one to the logs table only
\* send_log rows, after any sequence of send_* and flush calls.
C38_RowsToOwnTable ==
    \A ins \in LastInserts :
        \A j \in 1..Len(ins.rows) :
            ins.table = OwnTable("send_" \o ins.rows[j].sig)

\* C38 witness: one flush posted a metric row to the metrics table and a log
\* row to the logs table.
C38_Witness ==
    /\ \E ins \in LastInserts :
          /\ ins.table = "metrics"
          /\ ins.outcomes # <<>>
          /\ \E j \in 1..Len(ins.rows) : ins.rows[j].sig = "metric"
    /\ \E ins \in LastInserts :
          /\ ins.table = "logs"
          /\ ins.outcomes # <<>>
          /\ \E j \in 1..Len(ins.rows) : ins.rows[j].sig = "log"

\* C34: transform_otlp_to_clickhouse sets status_code to "OK" when the span's
\* status code is 1 and otherwise to the status message text, so that for
\* every span whose status code is not 1 (a span with no status or no message
\* included) status_code equals the row's status_message.
C34_StatusCodeIsMessage ==
    probe.fn \in {"transformed", "sent"}
        => /\ probe.span.status.code = PyInt(1) => probe.row.status_code = "OK"
           /\ probe.span.status.code # PyInt(1)
                 => probe.row.status_code = probe.row.status_message

\* C35: send_metric normalises metric_type case-insensitively: COUNTER
\* becomes SUM; GAUGE, SUM, HISTOGRAM, EXPONENTIAL_HISTOGRAM and SUMMARY are
\* kept; every other type becomes GAUGE.  The stored metric_type is always one
\* of these five values, and is_monotonic = 1 and aggregation_temporality =
\* DELTA exactly when the stored type is SUM.
C35_MetricTypeNormalised ==
    probe.fn = "metric"
        => \A c \in Conventions :
              \A i \in 1..Len(probe.res[c].rows) :
                 /\ Upper(OrDefault(probe.in.metric_type, "gauge")) = "COUNTER"
                       => probe.res[c].rows[i].metric_type = "SUM"
                 /\ Upper(OrDefault(probe.in.metric_type, "gauge")) \in ValidTypes
                       => probe.res[c].rows[i].metric_type
                             = Upper(OrDefault(probe.in.metric_type, "gauge"))
                 /\ Upper(OrDefault(probe.in.metric_type, "gauge"))
                          \notin ValidTypes \cup {"COUNTER"}
                       => probe.res[c].rows[i].metric_type = "GAUGE"
                 /\ probe.res[c].rows[i].metric_type \in ValidTypes
                 /\ probe.res[c].rows[i].is_monotonic = 1
                       <=> probe.res[c].rows[i].metric_type = "SUM"
                 /\ probe.res[c].rows[i].aggregation_temporality = "DELTA"
                       <=> probe.res[c].rows[i].metric_type = "SUM"

\* C35 witness: a metric sent with type "Counter" is stored as a monotonic
\* SUM with DELTA temporality.
C35_Witness ==
    /\ probe.fn = "metric"
    /\ probe.in.metric_type = "Counter"
    /\ \E c \in Conventions :
          /\ Len(probe.res[c].rows) = 1
          /\ probe.res[c].rows[1].metric_type = "SUM"
          /\ probe.res[c].rows[1].is_monotonic = 1
          /\ probe.res[c].rows[1].aggregation_temporality = "DELTA"

\* the value of an id column the claim expects: the id passed explicitly if
\* it is not empty, else the value under key in the attributes, if any
ExpectedId(explicit, attributes, key) ==
    IF OrDefault(explicit, "") # "" THEN explicit
    ELSE IF \E item \in attributes : item[1] = key
    THEN PyStr((CHOOSE item \in attributes : item[1] = key)[2])
    ELSE ""

\* C36: send_log fills the row's trace_id and span_id from the attributes
\* keys 'trace_id' and 'span_id' whenever they were not passed explicitly
\* (empty), and an explicitly passed non-empty trace_id or span_id takes
\* precedence over the attributes, in both calling conventions.
C36_LogCorrelationIds ==
    probe.fn = "log"
        => \A c \in Conventions :
              \A i \in 1..Len(probe.res[c].rows) :
                 /\ probe.res[c].rows[i].trace_id
                       = ExpectedId(probe.in.trace_id, probe.in.attributes,
                                    "trace_id")
                 /\ probe.res[c].rows[i].span_id
                       = ExpectedId(probe.in.span_id, probe.in.attributes,
                                    "span_id")

\* C36 witness: a log sent as a dict with trace_id "T1", an empty span_id
\* and attributes naming both ids: the row has the explicit trace_id and the
\* span_id of the attributes.
C36_Witness ==
    /\ probe.fn = "log"
    /\ probe.in.trace_id = "T1"
    /\ probe.in.span_id = ""
    /\ probe.in.attributes = {<<"trace_id", "A1">>, <<"span_id", "<int 7>">>}
    /\ Len(probe.res["dict"].rows) = 1
    /\ probe.res["dict"].rows[1].trace_id = "T1"
    /\ probe.res["dict"].rows[1].span_id = "7"

\* C39: after every enable() or disable() call returns, the enabled flag and
\* the opt-out marker agree (enabled exactly when the marker is absent), also
\* when the marker file cannot be removed or created, so that a disable() is
\* permanent for later client instances.
C39_FlagAgreesWithMarker ==
    [][ (ClientStep("enable") \/ ClientStep("disable"))
            => (enabled' <=> ~marker') ]_vars

\* C40: no send_*, flush, enable or disable call changes the configuration
\* fixed at construction; enable() and disable() change only the enabled flag
\* and the opt-out marker and leave user_id, session_id and every pending
\* batch untouched.
C40_ConfigurationFrozen ==
    [][ /\ backend' = backend
        /\ otlpCfg' = otlpCfg
        /\ chCfg' = chCfg
        /\ (ClientStep("enable") \/ ClientStep("disable"))
              => /\ identity' = identity
                 /\ trace_batch' = trace_batch
                 /\ metric_batch' = metric_batch
                 /\ log_batch' = log_batch
                 /\ clientReqs' = clientReqs ]_vars

\* C40 witness: disable() was called while a span was pending in the trace
\* batch of a ClickHouse backend, and the span is still pending.
C40_Witness ==
    /\ clientLast.op = "disable"
    /\ ~enabled
    /\ chLast.op = "send_trace"
    /\ Len(trace_batch) = 1
    /\ chCfg.batch_size > 1

====
